---- MODULE Spec2Model ----
(***************************************************************************)
(* Gateway wrapper (src/unnamed/part_001): the process supervisor          *)
(* (gatewayProc / gatewayStarting, ensureGatewayRunning, restartGateway),  *)
(* the readiness prober, and the HTTP / WebSocket entry handlers that      *)
(* call the supervisor and forward to the gateway.                         *)
(*                                                                         *)
(* Node runs every handler on one event loop.  A step of this model is one *)
(* macrotask (an incoming request, a timer, a fetch completion, a child    *)
(* process event) run up to its next await, or one continuation taken from *)
(* the microtask queue mq.  Macrotasks run only when mq is empty.          *)
(* Handlers in progress are kept by where they are suspended: waiters (on  *)
(* the start promise), sleepers (in restartGateway's grace sleep), busy    *)
(* (on an external command); `last` is the handler that has just answered. *)
(*                                                                         *)
(* Environment assumptions: fs.mkdirSync and childProcess.spawn do not     *)
(* throw synchronously; a health response can only come from a gateway     *)
(* process that is alive.                                                  *)
(***************************************************************************)
EXTENDS Integers, Sequences, FiniteSets, TLC

\* ------------------------------------------------------------------ bounds
NCallers == 2            \* handlers that can be in progress together
MaxSpawns == 3           \* child processes spawned in one run of the wrapper
ReadyTimeoutPolls == 1   \* GATEWAY_READY_TIMEOUT_MS counted in poll sleeps
MaxHeaders == 3          \* headers in a collection given to the sanitizer alone
MaxParams == 2           \* query parameters of a request given to the access gate alone
MaxFrames == 2           \* frames one side of a WebSocket pairing delivers
ProbeTimeout == 4        \* timeoutMs of one waitForGatewayReady() call, in clock ticks
ProbePoll == 2           \* pollMs, in clock ticks
ProbeReqTimeout == 2     \* requestTimeoutMs, in clock ticks
MaxPings == 2            \* pings one ping timer sends

Pids == 1..MaxSpawns

\* ------------------------------------------------------- program constants
MOLTBOT_GATEWAY_TOKEN == <<"s", "3">>
INTERNAL_HOSTPORT == <<"127.0.0.1:18789">>

STRIP_PROXY_HEADERS ==
  << "forwarded", "x-forwarded-for", "x-forwarded-host", "x-forwarded-port",
     "x-forwarded-proto", "x-forwarded-server", "x-forwarded-ssl", "x-real-ip",
     "x-client-ip", "cf-connecting-ip", "true-client-ip" >>

\* ------------------------------------------------------------ request data
\* A header collection is a function from lower-case names to values; a value
\* is the sequence of its comma-separated items.  A string is a sequence of
\* one-character strings where the code looks inside it (the token).
HdrBrowser ==
  ("host" :> <<"app.example">>) @@ ("accept" :> <<"TEXT/HTML", "*/*">>) @@
  ("x-forwarded-for" :> <<"203.0.113.9">>) @@ ("x-forwarded-proto" :> <<"https">>) @@
  ("cf-connecting-ip" :> <<"203.0.113.9">>) @@ ("x-forwarded-ssl" :> <<"on">>)

HdrApi ==
  ("host" :> <<"app.example">>) @@ ("accept" :> <<"application/json">>) @@
  ("forwarded" :> <<"for=203.0.113.9">>) @@ ("x-real-ip" :> <<"203.0.113.9">>) @@
  ("true-client-ip" :> <<"203.0.113.9">>) @@ ("x-forwarded-server" :> <<"edge">>)

HdrWs ==
  ("host" :> <<"app.example">>) @@ ("connection" :> <<"Upgrade">>) @@
  ("upgrade" :> <<"websocket">>) @@ ("sec-websocket-key" :> <<"k">>) @@
  ("sec-websocket-version" :> <<"13">>) @@ ("sec-websocket-extensions" :> <<"permessage-deflate">>) @@
  ("sec-websocket-protocol" :> <<"v1", " v2">>) @@
  ("x-forwarded-host" :> <<"app.example">>) @@ ("x-forwarded-port" :> <<"443">>) @@
  ("x-client-ip" :> <<"203.0.113.9">>) @@ ("origin" :> <<"https://app.example">>)

NoReq == [path |-> "", token |-> <<>>, hdrs |-> <<>>]

HttpSamples ==
  { [path |-> "/", token |-> <<>>, hdrs |-> HdrBrowser],
    [path |-> "/moltbot", token |-> MOLTBOT_GATEWAY_TOKEN, hdrs |-> HdrBrowser],
    [path |-> "/api/status", token |-> <<"x">>, hdrs |-> HdrApi] }

WsSamples == { [path |-> "/moltbot", token |-> <<>>, hdrs |-> HdrWs] }

\* --------------------------------------------------------------- variables
VARIABLES
  configured,       \* fs.existsSync(configPath())
  gatewayProc,      \* the handle: 0 is null, else the pid
  gatewayStarting,  \* TRUE when the slot holds the start promise, FALSE is null
  procs,            \* pid -> "none" | "alive" | "signalled" (alive, SIGTERM sent)
  spawnCount,       \* child processes spawned so far; the next pid is spawnCount + 1
  attempt,          \* the latest start promise: [state, phase, polls, proc, spawns]
  cleared,          \* what last set the handle to null
  waiters,          \* handlers suspended on `await gatewayStarting`, in await order
  mq,               \* microtask queue: awaiters to resume, in order
  sleepers,         \* handlers in restartGateway's sleep(750), in timer order
  busy,             \* handlers awaiting an external command, counted by position
  last,             \* the handler that has just run to its end, with its answer
  calc,             \* one function applied to one input: [fn, arg, out, again]
  clientWs,         \* the client socket of a pairing: [state, ping, calls]
  upstreamWs,       \* the upstream socket of the pairing: [state, ping, calls, handshake]
  received,         \* message events so far, per emitting side
  sent,             \* send() calls so far, per receiving side
  torn,             \* shutdown() calls so far
  prober,           \* one waitForGatewayReady() call against a clock
  pairs             \* the pairings made so far, in order: [c, u, conn, closes]

\* One WebSocket pairing.
bridgeVars == << clientWs, upstreamWs, received, sent, torn >>

\* What the supervisor and its callers do not touch.
auxVars == << calc, bridgeVars, prober, pairs >>

vars == << configured, gatewayProc, gatewayStarting, procs, spawnCount, attempt, cleared,
           waiters, mq, sleepers, busy, last, auxVars >>

supVars == << gatewayProc, gatewayStarting, procs, spawnCount, attempt, cleared >>

\* attempt.proc and attempt.spawns record what the attempt's startGateway() did.
NoAttempt == [state |-> "none", phase |-> "none", polls |-> 0, proc |-> 0, spawns |-> 0]
NoCall == [called |-> FALSE, via |-> "none", cfg |-> TRUE, inFlight |-> FALSE,
           sawEmpty |-> FALSE, during |-> FALSE, kept |-> TRUE, spawned |-> FALSE]
NoFwd == [path |-> "", token |-> <<>>, hdrs |-> <<>>]
NoAnswer == [kind |-> "none", rq |-> NoReq, call |-> NoCall, result |-> "none",
             resp |-> "none", fwd |-> NoFwd]
NoCalc == [fn |-> "none", arg |-> <<>>, out |-> <<>>, again |-> <<>>]
NoProbe == [pc |-> "none", now |-> 0, start |-> 0, since |-> 0, backend |-> "down",
            upAt |-> 0, probes |-> <<>>, result |-> "none"]
NoSocket == [state |-> "none", ping |-> FALSE, calls |-> <<>>, handshake |-> NoReq]

\* No pairing yet.
BridgeIdle ==
  /\ clientWs = NoSocket
  /\ upstreamWs = NoSocket
  /\ received = [client |-> <<>>, upstream |-> <<>>]
  /\ sent = [client |-> <<>>, upstream |-> <<>>]
  /\ torn = <<>>

isConfigured == configured

Alive(p) == procs[p] \in {"alive", "signalled"}

InProgress ==
  Len(waiters) + Len(mq) + Len(sleepers) + busy.onboard + busy.configSet + busy.extract

Init ==
  /\ configured \in BOOLEAN
  /\ gatewayProc = 0
  /\ gatewayStarting = FALSE
  /\ procs = [p \in Pids |-> "none"]
  /\ spawnCount = 0
  /\ attempt = NoAttempt
  /\ cleared = "never"
  /\ waiters = <<>>
  /\ mq = <<>>
  /\ sleepers = <<>>
  /\ busy = [onboard |-> 0, configSet |-> 0, extract |-> 0]
  /\ last = NoAnswer
  /\ calc = NoCalc
  /\ BridgeIdle
  /\ prober = NoProbe
  /\ pairs = <<>>

\* ------------------------------------------------------------ pure helpers
Delete(h, k) == [n \in (DOMAIN h) \ {k} |-> h[n]]

\* Faulty variant: the deletion loop does nothing.
StripFrom_Skip(h, i) == h

RECURSIVE StripFrom(_, _)
StripFrom(h, i) ==
  IF i > Len(STRIP_PROXY_HEADERS) THEN h
  ELSE StripFrom(IF STRIP_PROXY_HEADERS[i] \in DOMAIN h
                 THEN Delete(h, STRIP_PROXY_HEADERS[i]) ELSE h, i + 1)

\* Faulty variant: the loop stops after the first listed name it finds.
RECURSIVE StripFirst(_, _)
StripFirst(h, i) ==
  IF i > Len(STRIP_PROXY_HEADERS) THEN h
  ELSE IF STRIP_PROXY_HEADERS[i] \in DOMAIN h THEN Delete(h, STRIP_PROXY_HEADERS[i])
  ELSE StripFirst(h, i + 1)

stripProxyHeaders_FirstOnly(h) == StripFirst(h, 1)

\* stripProxyHeaders(req): for each listed name, delete it when present.
stripProxyHeaders(h) == StripFrom(h, 1)

\* buildUpstreamWsHeaders(req): a copy, without the listed names and the
\* handshake headers, with host set to the gateway's own host:port.
buildUpstreamWsHeaders(h) ==
  LET h1 == StripFrom(h, 1)
      h2 == Delete(Delete(Delete(Delete(Delete(h1, "connection"), "upgrade"),
              "sec-websocket-key"), "sec-websocket-version"), "sec-websocket-extensions")
  IN  ("host" :> INTERNAL_HOSTPORT) @@ h2

LowerTable == ("TEXT/HTML" :> "text/html") @@ ("Upgrade" :> "upgrade")
toLowerCase(s) == IF s \in DOMAIN LowerTable THEN LowerTable[s] ELSE s

Includes(v, needle) == \E i \in 1..Len(v) : toLowerCase(v[i]) = needle

\* isHtmlRequest(req): accept includes text/html or application/xhtml+xml,
\* or there is no accept header.
isHtmlRequest(h) ==
  LET accept == IF "accept" \in DOMAIN h THEN h["accept"] ELSE <<>>
  IN  Includes(accept, "text/html") \/ Includes(accept, "application/xhtml+xml")
      \/ accept = <<>>

RECURSIVE TrimLeft(_)
TrimLeft(s) == IF s # <<>> /\ Head(s) = " " THEN TrimLeft(Tail(s)) ELSE s
RECURSIVE TrimRight(_)
TrimRight(s) ==
  IF s # <<>> /\ s[Len(s)] = " " THEN TrimRight(SubSeq(s, 1, Len(s) - 1)) ELSE s
trim(s) == TrimRight(TrimLeft(s))

\* Faulty variant: the gate redirects every navigation to a gated path.
GateRedirects_NoTokenTest(rq, h) ==
  /\ rq.path = "/" \/ rq.path = "/moltbot"
  /\ isHtmlRequest(h)

\* The access gate of the proxy middleware (lines 1082-1086).
GateRedirects(rq, h) ==
  /\ rq.path = "/" \/ rq.path = "/moltbot"
  /\ isHtmlRequest(h)
  /\ LET provided == trim(rq.token)
     IN  provided = <<>> \/ provided # MOLTBOT_GATEWAY_TOKEN

\* Faulty variant: the middleware's catch answers 500.
ProxyTail_Catch500(rq, outcome) ==
  IF outcome = "startFailed" THEN [resp |-> "500", fwd |-> NoFwd]
  ELSE LET h == stripProxyHeaders(rq.hdrs)
       IN  IF GateRedirects(rq, h) THEN [resp |-> "redirect", fwd |-> NoFwd]
           ELSE [resp |-> "proxied",
                 fwd |-> [path |-> rq.path, token |-> rq.token, hdrs |-> h]]

\* Faulty variant: the middleware without its try/catch around the ensure call.
ProxyTail_NoCatch(rq, outcome) ==
  LET h == stripProxyHeaders(rq.hdrs)
  IN  IF GateRedirects(rq, h) THEN [resp |-> "redirect", fwd |-> NoFwd]
      ELSE [resp |-> "proxied",
            fwd |-> [path |-> rq.path, token |-> rq.token, hdrs |-> h]]

\* What a handler does once its ensureGatewayRunning() / restartGateway()
\* call has returned or thrown: [resp, fwd].
ProxyTail(rq, outcome) ==
  IF outcome = "startFailed" THEN [resp |-> "503", fwd |-> NoFwd]
  ELSE LET h == stripProxyHeaders(rq.hdrs)
       IN  IF GateRedirects(rq, h) THEN [resp |-> "redirect", fwd |-> NoFwd]
           ELSE [resp |-> "proxied",
                 fwd |-> [path |-> rq.path, token |-> rq.token, hdrs |-> h]]

\* Faulty variant: the upgrade handler without its try/catch.
UpgradeTail_NoCatch(rq, outcome) ==
  [resp |-> "bridged",
   fwd |-> [path |-> rq.path, token |-> rq.token,
            hdrs |-> buildUpstreamWsHeaders(rq.hdrs)]]

UpgradeTail(rq, outcome) ==
  IF outcome = "startFailed" THEN [resp |-> "destroyed", fwd |-> NoFwd]
  ELSE [resp |-> "bridged",
        fwd |-> [path |-> rq.path, token |-> rq.token,
                 hdrs |-> buildUpstreamWsHeaders(rq.hdrs)]]

InstallTail(outcome) ==
  IF outcome = "startFailed" THEN [resp |-> "500", fwd |-> NoFwd]
  ELSE [resp |-> "200", fwd |-> NoFwd]

HandlerTail(kind, rq, outcome) ==
  IF kind = "http" THEN ProxyTail(rq, outcome)
  ELSE IF kind = "ws" THEN UpgradeTail(rq, outcome)
  ELSE InstallTail(outcome)

\* ---------------------------------------------------------- handler steps
\* The event loop takes a macrotask only when no microtask is queued; a
\* handler that has answered is gone before anything else runs.
Quiet == mq = <<>> /\ last = NoAnswer

\* A new request is accepted while fewer than NCallers handlers are in progress.
Accepting == Quiet /\ InProgress < NCallers

\* The handler's ensure call returned `outcome` (or threw "startFailed"); the
\* handler runs to its end in the same run of the event loop.
Returned(kind, rq, call, outcome) ==
  LET t == HandlerTail(kind, rq, outcome)
  IN  [kind |-> kind, rq |-> rq, call |-> call, result |-> outcome,
       resp |-> t.resp, fwd |-> t.fwd]

\* The handler answers without calling the supervisor.
Answered(kind, rq, r) ==
  [kind |-> kind, rq |-> rq, call |-> NoCall, result |-> "none", resp |-> r, fwd |-> NoFwd]

\* --------------------------------------------------------------- supervisor
\* proc.kill("SIGTERM"): delivered to a live process.
kill(p) == IF procs[p] = "alive" THEN [procs EXCEPT ![p] = "signalled"] ELSE procs

\* startGateway() with the handle gp.  The `not installed` throw cannot
\* happen: ensureGatewayRunning, its only caller, has tested isConfigured()
\* in the same synchronous run.
startGateway(gp) ==
  IF gp # 0
  THEN /\ gatewayProc' = gp
       /\ attempt' = [state |-> "probing", phase |-> "fetching", polls |-> 0,
                      proc |-> 0, spawns |-> 0]
       /\ UNCHANGED << procs, spawnCount >>
  ELSE /\ isConfigured
       /\ spawnCount < MaxSpawns
       /\ LET p == spawnCount + 1
          IN  /\ procs' = [procs EXCEPT ![p] = "alive"]
              /\ spawnCount' = p
              /\ gatewayProc' = p
              /\ attempt' = [state |-> "probing", phase |-> "fetching", polls |-> 0,
                             proc |-> p, spawns |-> 1]

\* What an observer of one ensureGatewayRunning() call sees: the supervisor
\* before the call, and what the call did to it before suspending or returning.
CallRecord(via, gp) ==
  [called |-> TRUE, via |-> via, cfg |-> isConfigured,
   inFlight |-> gatewayStarting, sawEmpty |-> (gp = 0 /\ ~gatewayStarting),
   during |-> gatewayStarting',
   kept |-> (/\ gatewayProc' = gp /\ gatewayStarting' = gatewayStarting
             /\ procs' = procs /\ attempt' = attempt),
   spawned |-> (spawnCount' # spawnCount)]

\* Faulty variant: without the `if (gatewayStarting)` test of lines 185-188.
ensureGatewayRunning_NoJoin(kind, rq, gp, via) ==
  /\ IF ~isConfigured
     THEN /\ gatewayProc' = gp
          /\ UNCHANGED << gatewayStarting, procs, spawnCount, attempt, waiters >>
          /\ last' = Returned(kind, rq, CallRecord(via, gp), "notInstalled")
     ELSE IF gp # 0
     THEN /\ gatewayProc' = gp
          /\ UNCHANGED << gatewayStarting, procs, spawnCount, attempt, waiters >>
          /\ last' = Returned(kind, rq, CallRecord(via, gp), "ok")
     ELSE /\ startGateway(gp)
          /\ gatewayStarting' = TRUE
          /\ waiters' = Append(waiters, [kind |-> kind, rq |-> rq, call |-> CallRecord(via, gp)])
          /\ UNCHANGED last
  /\ UNCHANGED << configured, mq >>

\* Faulty variant: the handle is tested before the start promise.
ensureGatewayRunning_HandleFirst(kind, rq, gp, via) ==
  /\ IF ~isConfigured
     THEN /\ gatewayProc' = gp
          /\ UNCHANGED << gatewayStarting, procs, spawnCount, attempt, waiters >>
          /\ last' = Returned(kind, rq, CallRecord(via, gp), "notInstalled")
     ELSE IF gp # 0
     THEN /\ gatewayProc' = gp
          /\ UNCHANGED << gatewayStarting, procs, spawnCount, attempt, waiters >>
          /\ last' = Returned(kind, rq, CallRecord(via, gp), "ok")
     ELSE IF gatewayStarting
     THEN /\ gatewayProc' = gp
          /\ UNCHANGED << gatewayStarting, procs, spawnCount, attempt >>
          /\ waiters' = Append(waiters, [kind |-> kind, rq |-> rq, call |-> CallRecord(via, gp)])
          /\ UNCHANGED last
     ELSE /\ startGateway(gp)
          /\ gatewayStarting' = TRUE
          /\ waiters' = << [kind |-> kind, rq |-> rq, call |-> CallRecord(via, gp)] >>
          /\ UNCHANGED last
  /\ UNCHANGED << configured, mq >>

\* Faulty variant: without the isConfigured() test of line 182.
ensureGatewayRunning_NoConfigCheck(kind, rq, gp, via) ==
  /\ IF gatewayStarting
     THEN /\ gatewayProc' = gp
          /\ UNCHANGED << gatewayStarting, procs, spawnCount, attempt >>
          /\ waiters' = Append(waiters, [kind |-> kind, rq |-> rq, call |-> CallRecord(via, gp)])
          /\ UNCHANGED last
     ELSE IF gp # 0
     THEN /\ gatewayProc' = gp
          /\ UNCHANGED << gatewayStarting, procs, spawnCount, attempt, waiters >>
          /\ last' = Returned(kind, rq, CallRecord(via, gp), "ok")
     ELSE /\ startGateway(gp)
          /\ gatewayStarting' = TRUE
          /\ waiters' = << [kind |-> kind, rq |-> rq, call |-> CallRecord(via, gp)] >>
          /\ UNCHANGED last
  /\ UNCHANGED << configured, mq >>

\* Faulty variant: a call that finds the handle probes readiness again.
ensureGatewayRunning_ProbeAgain(kind, rq, gp, via) ==
  /\ IF ~isConfigured
     THEN /\ gatewayProc' = gp
          /\ UNCHANGED << gatewayStarting, procs, spawnCount, attempt, waiters >>
          /\ last' = Returned(kind, rq, CallRecord(via, gp), "notInstalled")
     ELSE IF gatewayStarting
     THEN /\ gatewayProc' = gp
          /\ UNCHANGED << gatewayStarting, procs, spawnCount, attempt >>
          /\ waiters' = Append(waiters, [kind |-> kind, rq |-> rq, call |-> CallRecord(via, gp)])
          /\ UNCHANGED last
     ELSE /\ startGateway(gp)
          /\ gatewayStarting' = TRUE
          /\ waiters' = << [kind |-> kind, rq |-> rq, call |-> CallRecord(via, gp)] >>
          /\ UNCHANGED last
  /\ UNCHANGED << configured, mq >>

\* ensureGatewayRunning() up to its first suspension, called from handler
\* `kind` with request rq when the handle is gp.
ensureGatewayRunning(kind, rq, gp, via) ==
  /\ IF ~isConfigured
     THEN /\ gatewayProc' = gp
          /\ UNCHANGED << gatewayStarting, procs, spawnCount, attempt, waiters >>
          /\ last' = Returned(kind, rq, CallRecord(via, gp), "notInstalled")
     ELSE IF gatewayStarting
     THEN /\ gatewayProc' = gp
          /\ UNCHANGED << gatewayStarting, procs, spawnCount, attempt >>
          /\ waiters' = Append(waiters, [kind |-> kind, rq |-> rq, call |-> CallRecord(via, gp)])
          /\ UNCHANGED last
     ELSE IF gp # 0
     THEN /\ gatewayProc' = gp
          /\ UNCHANGED << gatewayStarting, procs, spawnCount, attempt, waiters >>
          /\ last' = Returned(kind, rq, CallRecord(via, gp), "ok")
     ELSE /\ startGateway(gp)
          /\ gatewayStarting' = TRUE
          /\ waiters' = << [kind |-> kind, rq |-> rq, call |-> CallRecord(via, gp)] >>
          /\ UNCHANGED last
  /\ UNCHANGED << configured, mq >>

\* restartGateway() up to its first suspension.
restartGateway(kind) ==
  IF gatewayProc # 0
  THEN /\ procs' = kill(gatewayProc)
       /\ sleepers' = Append(sleepers, kind)
       /\ UNCHANGED << configured, gatewayProc, gatewayStarting, spawnCount, attempt,
                       cleared, waiters, mq, last >>
  ELSE /\ ensureGatewayRunning(kind, NoReq, gatewayProc, "restart")
       /\ UNCHANGED << cleared, sleepers >>

\* restartGateway() after sleep(750): clear the handle, then ensure.
RestartWake ==
  /\ Quiet
  /\ sleepers # <<>>
  /\ sleepers' = Tail(sleepers)
  /\ cleared' = "restart"
  /\ ensureGatewayRunning(Head(sleepers), NoReq, 0, "restart")
  /\ UNCHANGED busy
  /\ UNCHANGED auxVars

\* ------------------------------------------------------ readiness probing
\* Faulty variant: a failed start leaves its promise in the slot.
Settle_KeepSlotOnFailure(how) ==
  /\ attempt' = [attempt EXCEPT !.state = how, !.phase = "none", !.polls = 0]
  /\ gatewayStarting' = (how = "failed")
  /\ mq' = waiters
  /\ waiters' = <<>>

\* The start promise settles: its finally() empties the slot, then the
\* awaiters are queued to resume in the order they awaited.
Settle(how) ==
  /\ attempt' = [attempt EXCEPT !.state = how, !.phase = "none", !.polls = 0]
  /\ gatewayStarting' = FALSE
  /\ mq' = waiters
  /\ waiters' = <<>>

\* waitForGatewayReady(): the probe fetch completes with an HTTP status.
StatusSamples == {200, 404, 503}

FetchResponds(status) ==
  /\ Quiet
  /\ gatewayStarting
  /\ attempt.phase = "fetching"
  /\ \E p \in Pids : Alive(p)
  /\ IF status < 500
     THEN /\ Settle("ready")
          /\ UNCHANGED gatewayProc
     ELSE /\ attempt' = [attempt EXCEPT !.phase = "sleeping"]
          /\ UNCHANGED << gatewayProc, gatewayStarting, waiters, mq >>
  /\ UNCHANGED << configured, procs, spawnCount, cleared, sleepers, busy, last >>
  /\ UNCHANGED auxVars

\* The probe fetch throws (connection refused, or aborted after the
\* per-request timeout): swallowed, then sleep(pollMs).
FetchFails ==
  /\ Quiet
  /\ gatewayStarting
  /\ attempt.phase = "fetching"
  /\ attempt' = [attempt EXCEPT !.phase = "sleeping"]
  /\ UNCHANGED << configured, gatewayProc, gatewayStarting, procs, spawnCount, cleared,
                  waiters, mq, sleepers, busy, last >>
  /\ UNCHANGED auxVars

\* Faulty variant: the timeout path without `gatewayProc = null`.
StartTimedOut_KeepHandle ==
  /\ procs' = IF gatewayProc # 0 THEN kill(gatewayProc) ELSE procs
  /\ UNCHANGED gatewayProc
  /\ cleared' = "timeout"
  /\ Settle("failed")

\* The start attempt after waitForGatewayReady() returned false (lines
\* 194-203): SIGTERM to the handle if any, clear the handle, reject.
StartTimedOut ==
  /\ procs' = IF gatewayProc # 0 THEN kill(gatewayProc) ELSE procs
  /\ gatewayProc' = 0
  /\ cleared' = "timeout"
  /\ Settle("failed")

\* sleep(pollMs) is over: test the deadline, then probe again or give up.
PollSleepDone ==
  /\ Quiet
  /\ gatewayStarting
  /\ attempt.phase = "sleeping"
  /\ IF attempt.polls + 1 < ReadyTimeoutPolls
     THEN /\ attempt' = [attempt EXCEPT !.phase = "fetching", !.polls = @ + 1]
          /\ UNCHANGED << gatewayProc, gatewayStarting, procs, cleared, waiters, mq >>
     ELSE StartTimedOut
  /\ UNCHANGED << configured, spawnCount, sleepers, busy, last >>
  /\ UNCHANGED auxVars

\* A handler's `await gatewayStarting` resumes with the promise's outcome.
RunMicrotask ==
  /\ mq # <<>>
  /\ last = NoAnswer
  /\ LET w == Head(mq)
         outcome == IF attempt.state = "ready" THEN "ok" ELSE "startFailed"
     IN  last' = Returned(w.kind, w.rq, w.call, outcome)
  /\ mq' = Tail(mq)
  /\ UNCHANGED << configured, waiters, sleepers, busy >>
  /\ UNCHANGED supVars
  /\ UNCHANGED auxVars

\* ---------------------------------------------------- child process events
\* Faulty variant: an exit handler that does not clear the handle.
ProcExit_KeepHandle(p) ==
  /\ Quiet
  /\ Alive(p)
  /\ procs' = [procs EXCEPT ![p] = "none"]
  /\ UNCHANGED gatewayProc
  /\ cleared' = "exit"
  /\ UNCHANGED << configured, gatewayStarting, spawnCount, attempt, waiters, mq,
                  sleepers, busy, last >>
  /\ UNCHANGED auxVars

\* gatewayProc.on("exit"): the handler clears the handle.
ProcExit(p) ==
  /\ Quiet
  /\ Alive(p)
  /\ procs' = [procs EXCEPT ![p] = "none"]
  /\ gatewayProc' = 0
  /\ cleared' = "exit"
  /\ UNCHANGED << configured, gatewayStarting, spawnCount, attempt, waiters, mq,
                  sleepers, busy, last >>
  /\ UNCHANGED auxVars

\* gatewayProc.on("error"): the spawn failed; the handler clears the handle.
ProcError(p) ==
  /\ Quiet
  /\ Alive(p)
  /\ attempt.state = "probing" /\ attempt.proc = p
  /\ procs' = [procs EXCEPT ![p] = "none"]
  /\ gatewayProc' = 0
  /\ cleared' = "error"
  /\ UNCHANGED << configured, gatewayStarting, spawnCount, attempt, waiters, mq,
                  sleepers, busy, last >>
  /\ UNCHANGED auxVars

\* ---------------------------------------------------------------- handlers
\* The sample paths that begin with "/install".
InstallPrefixed == {"/install", "/install/x", "/installer"}
startsWithInstall(path) == path \in InstallPrefixed

\* Faulty variant: the middleware without its isConfigured() test.
HttpRequest_NoConfigTest(rq) ==
  /\ Accepting
  /\ ensureGatewayRunning("http", rq, gatewayProc, "direct")
  /\ UNCHANGED cleared
  /\ UNCHANGED << sleepers, busy >>
  /\ UNCHANGED auxVars

\* app.use(async (req, res) => ...): the proxy middleware.
HttpRequest(rq) ==
  /\ Accepting
  /\ IF ~isConfigured
     THEN /\ last' = Answered("http", rq,
                       IF startsWithInstall(rq.path) \/ rq.path = "/healthz"
                       THEN "404" ELSE "landing")
          /\ UNCHANGED << configured, waiters, mq >>
          /\ UNCHANGED supVars
     ELSE /\ ensureGatewayRunning("http", rq, gatewayProc, "direct")
          /\ UNCHANGED cleared
  /\ UNCHANGED << sleepers, busy >>
  /\ UNCHANGED auxVars

\* server.on("upgrade", ...).
WsUpgrade(rq) ==
  /\ Accepting
  /\ IF ~isConfigured
     THEN /\ last' = Answered("ws", rq, "destroyed")
          /\ UNCHANGED << configured, waiters, mq >>
          /\ UNCHANGED supVars
     ELSE /\ ensureGatewayRunning("ws", rq, gatewayProc, "direct")
          /\ UNCHANGED cleared
  /\ UNCHANGED << sleepers, busy >>
  /\ UNCHANGED auxVars

\* POST /install/api/run: ensure when installed, else start onboarding.
InstallRun ==
  /\ Accepting
  /\ IF isConfigured
     THEN /\ ensureGatewayRunning("run", NoReq, gatewayProc, "direct")
          /\ UNCHANGED << cleared, busy >>
     ELSE /\ busy' = [busy EXCEPT !.onboard = @ + 1]
          /\ UNCHANGED << configured, waiters, mq, last >>
          /\ UNCHANGED supVars
  /\ UNCHANGED sleepers
  /\ UNCHANGED auxVars

\* The onboarding command, or the archive extraction, writes the config file.
ConfigWritten ==
  /\ Quiet
  /\ ~configured
  /\ busy.onboard > 0 \/ busy.extract > 0
  /\ configured' = TRUE
  /\ UNCHANGED << waiters, mq, sleepers, busy, last >>
  /\ UNCHANGED supVars
  /\ UNCHANGED auxVars

\* runCmd(onboard) returned: ok = (code === 0 && isConfigured()).
OnboardDone(code) ==
  /\ Quiet
  /\ busy.onboard > 0
  /\ IF code = 0 /\ isConfigured
     THEN /\ busy' = [busy EXCEPT !.onboard = @ - 1, !.configSet = @ + 1]
          /\ UNCHANGED last
     ELSE /\ busy' = [busy EXCEPT !.onboard = @ - 1]
          /\ last' = Answered("run", NoReq, "500")
  /\ UNCHANGED << configured, waiters, mq, sleepers >>
  /\ UNCHANGED supVars
  /\ UNCHANGED auxVars

\* The `config set` commands returned: await restartGateway().
ConfigSetDone ==
  /\ Quiet
  /\ busy.configSet > 0
  /\ busy' = [busy EXCEPT !.configSet = @ - 1]
  /\ restartGateway("run")
  /\ UNCHANGED auxVars

\* POST /install/api/import: the upload is stored and tar.x() runs.
ImportUpload ==
  /\ Accepting
  /\ busy' = [busy EXCEPT !.extract = @ + 1]
  /\ UNCHANGED << configured, waiters, mq, sleepers, last >>
  /\ UNCHANGED supVars
  /\ UNCHANGED auxVars

\* tar.x() returned: if (isConfigured()) await restartGateway().
ImportExtracted ==
  /\ Quiet
  /\ busy.extract > 0
  /\ busy' = [busy EXCEPT !.extract = @ - 1]
  /\ IF isConfigured
     THEN restartGateway("import")
     ELSE /\ last' = Answered("import", NoReq, "200")
          /\ UNCHANGED << configured, waiters, mq, sleepers >>
          /\ UNCHANGED supVars
  /\ UNCHANGED auxVars

\* POST /install/api/reset: delete the config file.
Reset ==
  /\ Quiet
  /\ configured
  /\ configured' = FALSE
  /\ UNCHANGED << waiters, mq, sleepers, busy, last >>
  /\ UNCHANGED supVars
  /\ UNCHANGED auxVars

\* The response is out; the handler is gone.
Finish ==
  /\ last # NoAnswer
  /\ last' = NoAnswer
  /\ UNCHANGED << configured, waiters, mq, sleepers, busy >>
  /\ UNCHANGED supVars
  /\ UNCHANGED auxVars

Next ==
  \/ \E rq \in HttpSamples : HttpRequest(rq)
  \/ \E rq \in WsSamples : WsUpgrade(rq)
  \/ InstallRun
  \/ ConfigWritten
  \/ \E code \in {0, 1} : OnboardDone(code)
  \/ ConfigSetDone
  \/ ImportUpload
  \/ ImportExtracted
  \/ Reset
  \/ RestartWake
  \/ \E status \in StatusSamples : FetchResponds(status)
  \/ FetchFails
  \/ PollSleepDone
  \/ RunMicrotask
  \/ \E p \in Pids : ProcExit(p)
  \/ \E p \in Pids : ProcError(p)
  \/ Finish

Spec == Init /\ [][Next]_vars

\* ------------------------------------------- the header sanitizer alone
\* Everything of the server outside `calc`.
serverVars == << configured, gatewayProc, gatewayStarting, procs, spawnCount, attempt,
                 cleared, waiters, mq, sleepers, busy, last >>

\* The server at rest, installed: no process, no start, no handler in progress.
ServerIdle ==
  /\ configured = TRUE
  /\ gatewayProc = 0
  /\ gatewayStarting = FALSE
  /\ procs = [p \in Pids |-> "none"]
  /\ spawnCount = 0
  /\ attempt = NoAttempt
  /\ cleared = "never"
  /\ waiters = <<>>
  /\ mq = <<>>
  /\ sleepers = <<>>
  /\ busy = [onboard |-> 0, configSet |-> 0, extract |-> 0]
  /\ last = NoAnswer

\* req.headers as Node builds it: lower-case names, at most MaxHeaders of them,
\* taken from the listed names and some that are not listed.
UnlistedNames == {"host", "accept", "cookie", "x-forwarded-prefix"}
HeaderNames == {STRIP_PROXY_HEADERS[i] : i \in DOMAIN STRIP_PROXY_HEADERS} \cup UnlistedNames
HeaderValues == {<<"a">>, <<"a", "b">>}
HeaderSets ==
  UNION {[S -> HeaderValues] : S \in {T \in SUBSET HeaderNames : Cardinality(T) <= MaxHeaders}}

SanInit ==
  /\ ServerIdle
  /\ BridgeIdle
  /\ prober = NoProbe
  /\ pairs = <<>>
  /\ \E h \in HeaderSets : calc = [fn |-> "strip", arg |-> h, out |-> <<>>, again |-> <<>>]

\* stripProxyHeaders(req) on the incoming headers.
SanitizeOnce ==
  /\ calc.fn = "strip"
  /\ calc' = [calc EXCEPT !.fn = "stripped", !.out = stripProxyHeaders(calc.arg)]
  /\ UNCHANGED serverVars
  /\ UNCHANGED << bridgeVars, prober, pairs >>

\* stripProxyHeaders(req) once more, on what the first call left.
SanitizeAgain ==
  /\ calc.fn = "stripped"
  /\ calc' = [calc EXCEPT !.fn = "strippedTwice", !.again = stripProxyHeaders(calc.out)]
  /\ UNCHANGED serverVars
  /\ UNCHANGED << bridgeVars, prober, pairs >>

SanNext == SanitizeOnce \/ SanitizeAgain

SanSpec == SanInit /\ [][SanNext]_vars

\* ------------------------------------------------- the access gate alone
\* A request as it arrives: path, query string as (name, value) pairs in
\* order, and headers.  A value is a sequence of characters.
TokenValues == {MOLTBOT_GATEWAY_TOKEN, <<"x">>, <<" ", "s", "3">>, <<>>}
ParamSamples == {<<"token", v>> : v \in TokenValues} \cup {<<"a", <<"1">>>>}
QuerySamples == UNION {[1..n -> ParamSamples] : n \in 0..MaxParams}
PathSamples == {"/", "/moltbot", "/moltbot/", "/api/status", "/assets/app.js"}
AcceptSamples ==
  { ("host" :> <<"app.example">>),
    ("host" :> <<"app.example">>) @@ ("accept" :> <<>>),
    ("host" :> <<"app.example">>) @@ ("accept" :> <<"TEXT/HTML", "*/*">>),
    ("x-forwarded-for" :> <<"203.0.113.9">>) @@ ("accept" :> <<"application/xhtml+xml">>),
    ("x-real-ip" :> <<"203.0.113.9">>) @@ ("accept" :> <<"application/json">>) }

NoUrl == [path |-> "", query |-> <<>>]

\* The pairs of a query whose name is k.
ParamsNamed(query, k) == SelectSeq(query, LAMBDA pr : pr[1] = k)

\* req.query.token as the middleware reads it: the value when the parameter
\* occurs once; a repeated parameter is parsed to an array and a missing one
\* is undefined, and for both the middleware takes "".
queryToken(query) ==
  LET t == ParamsNamed(query, "token")
  IN  IF Len(t) = 1 THEN t[1][2] ELSE <<>>

\* URLSearchParams.set(k, v): the first pair named k gets v and the other
\* pairs named k are removed; without such a pair, (k, v) is appended.
RECURSIVE SetFrom(_, _, _, _)
SetFrom(query, k, v, seen) ==
  IF query = <<>> THEN (IF seen THEN <<>> ELSE << <<k, v>> >>)
  ELSE IF Head(query)[1] # k THEN << Head(query) >> \o SetFrom(Tail(query), k, v, seen)
  ELSE IF seen THEN SetFrom(Tail(query), k, v, TRUE)
  ELSE << <<k, v>> >> \o SetFrom(Tail(query), k, v, TRUE)

\* Faulty variant: the token is added with searchParams.append.
buildTokenizedDashboardUrl_Append(r) ==
  [path |-> "/moltbot", query |-> Append(r.query, <<"token", MOLTBOT_GATEWAY_TOKEN>>)]

\* buildTokenizedDashboardUrl(req).
buildTokenizedDashboardUrl(r) ==
  [path |-> "/moltbot", query |-> SetFrom(r.query, "token", MOLTBOT_GATEWAY_TOKEN, FALSE)]

GateInit ==
  /\ ServerIdle
  /\ BridgeIdle
  /\ prober = NoProbe
  /\ pairs = <<>>
  /\ \E pa \in PathSamples, q \in QuerySamples, h \in AcceptSamples :
       calc = [fn |-> "request", arg |-> [path |-> pa, query |-> q, hdrs |-> h],
               out |-> <<>>, again |-> <<>>]

\* The proxy middleware from its ensureGatewayRunning() call on, the call
\* having returned (outcome "ok") or thrown ("startFailed").
MiddlewareAnswers(outcome) ==
  /\ calc.fn = "request"
  /\ LET r == calc.arg
         t == ProxyTail([path |-> r.path, token |-> queryToken(r.query), hdrs |-> r.hdrs],
                        outcome)
     IN  calc' = [calc EXCEPT
           !.fn = "http",
           !.out = [outcome |-> outcome, resp |-> t.resp, hdrs |-> t.fwd.hdrs,
                    url |-> IF t.resp = "proxied"
                            THEN [path |-> r.path, query |-> r.query] ELSE NoUrl,
                    location |-> IF t.resp = "redirect"
                                 THEN buildTokenizedDashboardUrl(r) ELSE NoUrl]]
  /\ UNCHANGED serverVars
  /\ UNCHANGED << bridgeVars, prober, pairs >>

\* The upgrade handler from its ensureGatewayRunning() call on.
UpgradeAnswers(outcome) ==
  /\ calc.fn = "request"
  /\ LET r == calc.arg
         t == UpgradeTail([path |-> r.path, token |-> queryToken(r.query), hdrs |-> r.hdrs],
                          outcome)
     IN  calc' = [calc EXCEPT
           !.fn = "upgrade",
           !.out = [outcome |-> outcome, resp |-> t.resp, hdrs |-> t.fwd.hdrs,
                    url |-> IF t.resp = "bridged"
                            THEN [path |-> r.path, query |-> r.query] ELSE NoUrl,
                    location |-> NoUrl]]
  /\ UNCHANGED serverVars
  /\ UNCHANGED << bridgeVars, prober, pairs >>

GateNext ==
  \/ \E outcome \in {"ok", "startFailed"} : MiddlewareAnswers(outcome)
  \/ \E outcome \in {"ok", "startFailed"} : UpgradeAnswers(outcome)

GateSpec == GateInit /\ [][GateNext]_vars

\* ------------------------------------------------ following the redirect
MaxHops == 2

\* The browser follows the 302: it requests the Location it was given, as a
\* navigation with headers of its own.
FollowRedirect(h) ==
  /\ calc.fn = "http"
  /\ calc.out.resp = "redirect"
  /\ Len(calc.again) < MaxHops
  /\ calc' = [fn |-> "request",
              arg |-> [path |-> calc.out.location.path,
                       query |-> calc.out.location.query, hdrs |-> h],
              out |-> <<>>,
              again |-> Append(calc.again, calc.arg)]
  /\ UNCHANGED serverVars
  /\ UNCHANGED << bridgeVars, prober, pairs >>

RedirectNext ==
  \/ \E outcome \in {"ok", "startFailed"} : MiddlewareAnswers(outcome)
  \/ \E h \in AcceptSamples : FollowRedirect(h)

RedirectSpec == GateInit /\ [][RedirectNext]_vars

\* -------------------------------------------- requests before installation
\* The server with the configuration absent: never installed, or reset while
\* the gateway it had started goes on running.
LandingPaths == PathSamples \cup InstallPrefixed \cup {"/healthz"}
LandingSamples ==
  { [path |-> pa, token |-> t, hdrs |-> h] :
      pa \in LandingPaths, t \in {<<>>, MOLTBOT_GATEWAY_TOKEN}, h \in AcceptSamples }

RunningThenReset ==
  /\ gatewayProc = 1
  /\ gatewayStarting = FALSE
  /\ procs = [p \in Pids |-> IF p = 1 THEN "alive" ELSE "none"]
  /\ spawnCount = 1
  /\ attempt = [state |-> "ready", phase |-> "none", polls |-> 0, proc |-> 1, spawns |-> 1]
  /\ cleared = "never"
  /\ waiters = <<>>
  /\ mq = <<>>
  /\ sleepers = <<>>
  /\ busy = [onboard |-> 0, configSet |-> 0, extract |-> 0]
  /\ last = NoAnswer

LandingInit ==
  /\ configured = FALSE
  /\ calc = NoCalc
  /\ BridgeIdle
  /\ prober = NoProbe
  /\ pairs = <<>>
  /\ \/ /\ gatewayProc = 0
        /\ gatewayStarting = FALSE
        /\ procs = [p \in Pids |-> "none"]
        /\ spawnCount = 0
        /\ attempt = NoAttempt
        /\ cleared = "never"
        /\ waiters = <<>>
        /\ mq = <<>>
        /\ sleepers = <<>>
        /\ busy = [onboard |-> 0, configSet |-> 0, extract |-> 0]
        /\ last = NoAnswer
     \/ RunningThenReset

LandingNext ==
  \/ \E rq \in LandingSamples : HttpRequest(rq)
  \/ \E rq \in WsSamples : WsUpgrade(rq)
  \/ Finish

LandingSpec == LandingInit /\ [][LandingNext]_vars

\* ------------------------------------------------ one WebSocket pairing
\* The upgrade handler after ensureGatewayRunning() has succeeded, and the
\* events of the two sockets of the pairing.  A socket's state is its
\* readyState ("connecting", "open", "closing", "closed"), with "terminating"
\* for a socket destroyed by terminate() whose close event is still to come.
\* The ws library sets readyState to CLOSED before it emits `close`.
FrameSamples == {[data |-> d, isBinary |-> b] : d \in {"a", "b"}, b \in BOOLEAN}

\* (code, reason) of a close event: a status sent by the peer, 1005 for a
\* close frame without status, 1006 for a connection lost without close frame.
CloseSamples == {<<1000, "bye">>, <<1001, "">>, <<4000, "x">>, <<1005, "">>, <<1006, "">>}
Abnormal == <<1006, "">>

\* ws: close(code, reason) throws unless the code may be sent in a close frame.
isValidStatusCode(code) ==
  \/ code >= 1000 /\ code <= 1014 /\ code \notin {1004, 1005, 1006}
  \/ code >= 3000 /\ code <= 4999

\* Faulty variant: the other side is closed with the normal code 1000.
CloseOther_Code1000(ws, code, reason) ==
  IF ws.state # "open" THEN ws
  ELSE [ws EXCEPT !.state = "closing", !.calls = Append(@, <<"close", 1000, reason>>)]

\* Faulty variant: the catch around close() does not terminate the socket.
CloseOther_NoTerminate(ws, code, reason) ==
  IF ws.state # "open" THEN ws
  ELSE [ws EXCEPT !.state = "closing", !.calls = Append(@, <<"close", code, reason>>)]

\* Faulty variant: close() is called whatever the socket's readyState.
CloseOther_NoStateTest(ws, code, reason) ==
  IF isValidStatusCode(code)
  THEN [ws EXCEPT !.state = IF @ = "open" THEN "closing" ELSE @,
                  !.calls = Append(@, <<"close", code, reason>>)]
  ELSE [ws EXCEPT !.state = IF @ = "open" THEN "terminating" ELSE @,
                  !.calls = Append(Append(@, <<"close", code, reason>>),
                                   <<"terminate", code, reason>>)]

\* One half of shutdown(): `if (ws.readyState === OPEN) ws.close(code, reason)`
\* in a try whose catch calls ws.terminate().
CloseOther(ws, code, reason) ==
  IF ws.state # "open" THEN ws
  ELSE IF isValidStatusCode(code)
  THEN [ws EXCEPT !.state = "closing", !.calls = Append(@, <<"close", code, reason>>)]
  ELSE [ws EXCEPT !.state = "terminating",
                  !.calls = Append(Append(@, <<"close", code, reason>>),
                                   <<"terminate", code, reason>>)]

\* shutdown(who, code, reason) on the sockets c and u: both ping timers are
\* cleared, then each side other than `who` is closed if it is open.
shutdown(who, code, reason, c, u) ==
  [c |-> [(IF who # "client" THEN CloseOther(c, code, reason) ELSE c) EXCEPT !.ping = FALSE],
   u |-> [(IF who # "upstream" THEN CloseOther(u, code, reason) ELSE u) EXCEPT !.ping = FALSE]]

\* A close event of the client socket, delivered to its handler.
ClientClosed(cs) ==
  LET r == shutdown("client", cs[1], cs[2], [clientWs EXCEPT !.state = "closed"], upstreamWs)
  IN  /\ clientWs' = r.c
      /\ upstreamWs' = r.u
      /\ torn' = Append(torn, [who |-> "client", code |-> cs[1], reason |-> cs[2],
                               was |-> clientWs.state, other |-> upstreamWs.state])
      /\ UNCHANGED << received, sent, calc, prober, pairs >>
      /\ UNCHANGED serverVars

\* A close event of the upstream socket, delivered to its handler.
UpstreamClosed(cs) ==
  LET r == shutdown("upstream", cs[1], cs[2], clientWs, [upstreamWs EXCEPT !.state = "closed"])
  IN  /\ clientWs' = r.c
      /\ upstreamWs' = r.u
      /\ torn' = Append(torn, [who |-> "upstream", code |-> cs[1], reason |-> cs[2],
                               was |-> upstreamWs.state, other |-> clientWs.state])
      /\ UNCHANGED << received, sent, calc, prober, pairs >>
      /\ UNCHANGED serverVars

\* Faulty variant: every frame is relayed as a text frame.
relay_AsText(frame, peer) ==
  IF peer.state = "open" THEN << [data |-> frame.data, binary |-> FALSE] >> ELSE <<>>

\* A message handler: the send() calls it makes on the peer socket.
relay(frame, peer) ==
  IF peer.state = "open" THEN << [data |-> frame.data, binary |-> frame.isBinary] >> ELSE <<>>

BridgeInit ==
  /\ configured = TRUE
  /\ RunningThenReset
  /\ calc = NoCalc
  /\ BridgeIdle
  /\ prober = NoProbe
  /\ pairs = <<>>

\* wsServer.handleUpgrade(...) calls back with the client socket open; the
\* callback creates the upstream socket and starts both ping timers.
HandleUpgrade(rq) ==
  /\ clientWs.state = "none"
  /\ clientWs' = [state |-> "open", ping |-> TRUE, calls |-> <<>>, handshake |-> rq]
  /\ upstreamWs' = [state |-> "connecting", ping |-> TRUE, calls |-> <<>>,
                    handshake |-> [path |-> rq.path, token |-> rq.token,
                                   hdrs |-> buildUpstreamWsHeaders(rq.hdrs)]]
  /\ UNCHANGED << received, sent, torn, calc, prober, pairs >>
  /\ UNCHANGED serverVars

\* Faulty variant: the frames the client sent while the upstream was
\* connecting are kept and sent once it opens.
UpstreamOpen_Flush ==
  /\ upstreamWs.state = "connecting"
  /\ upstreamWs' = [upstreamWs EXCEPT !.state = "open"]
  /\ sent' = [sent EXCEPT !.upstream =
       @ \o [i \in DOMAIN received.client |->
               [data |-> received.client[i].frame.data,
                binary |-> received.client[i].frame.isBinary]]]
  /\ UNCHANGED << clientWs, received, torn, calc, prober, pairs >>
  /\ UNCHANGED serverVars

\* upstreamWs.on("open").
UpstreamOpen ==
  /\ upstreamWs.state = "connecting"
  /\ upstreamWs' = [upstreamWs EXCEPT !.state = "open"]
  /\ UNCHANGED << clientWs, received, sent, torn, calc, prober, pairs >>
  /\ UNCHANGED serverVars

\* The upstream connection cannot be established: `error`, then `close`.
UpstreamConnectFails ==
  /\ upstreamWs.state = "connecting"
  /\ UpstreamClosed(Abnormal)

\* The browser closes, or its connection is lost.
ClientPeerCloses(cs) ==
  /\ clientWs.state = "open"
  /\ ClientClosed(cs)

\* The gateway closes, or its connection is lost.
UpstreamPeerCloses(cs) ==
  /\ upstreamWs.state = "open"
  /\ UpstreamClosed(cs)

\* A close() or terminate() made by shutdown() comes to its end.
ClientCloseCompletes(cs) ==
  /\ clientWs.state \in {"closing", "terminating"}
  /\ ClientClosed(IF clientWs.state = "terminating" THEN Abnormal ELSE cs)

UpstreamCloseCompletes(cs) ==
  /\ upstreamWs.state \in {"closing", "terminating"}
  /\ UpstreamClosed(IF upstreamWs.state = "terminating" THEN Abnormal ELSE cs)

\* clientWs.on("message").
ClientMessage(frame) ==
  /\ clientWs.state \in {"open", "closing"}
  /\ Len(received.client) < MaxFrames
  /\ received' = [received EXCEPT
       !.client = Append(@, [frame |-> frame, peerOpen |-> upstreamWs.state = "open"])]
  /\ sent' = [sent EXCEPT !.upstream = @ \o relay(frame, upstreamWs)]
  /\ UNCHANGED << clientWs, upstreamWs, torn, calc, prober, pairs >>
  /\ UNCHANGED serverVars

\* upstreamWs.on("message").
UpstreamMessage(frame) ==
  /\ upstreamWs.state \in {"open", "closing"}
  /\ Len(received.upstream) < MaxFrames
  /\ received' = [received EXCEPT
       !.upstream = Append(@, [frame |-> frame, peerOpen |-> clientWs.state = "open"])]
  /\ sent' = [sent EXCEPT !.client = @ \o relay(frame, clientWs)]
  /\ UNCHANGED << clientWs, upstreamWs, torn, calc, prober, pairs >>
  /\ UNCHANGED serverVars

BridgeNext ==
  \/ \E rq \in WsSamples : HandleUpgrade(rq)
  \/ UpstreamOpen
  \/ UpstreamConnectFails
  \/ \E cs \in CloseSamples : ClientPeerCloses(cs)
  \/ \E cs \in CloseSamples : UpstreamPeerCloses(cs)
  \/ \E cs \in CloseSamples : ClientCloseCompletes(cs)
  \/ \E cs \in CloseSamples : UpstreamCloseCompletes(cs)
  \/ \E frame \in FrameSamples : ClientMessage(frame)
  \/ \E frame \in FrameSamples : UpstreamMessage(frame)

BridgeSpec == BridgeInit /\ [][BridgeNext]_vars

\* The connection attempt comes to an end, and so does every close() or
\* terminate() the bridge has made (the ws library times a close out); a
\* peer is never obliged to close of its own accord.
BridgeFairSpec ==
  /\ BridgeSpec
  /\ WF_vars(UpstreamOpen \/ UpstreamConnectFails)
  /\ WF_vars(\E cs \in CloseSamples : ClientCloseCompletes(cs))
  /\ WF_vars(\E cs \in CloseSamples : UpstreamCloseCompletes(cs))

\* ------------------------------------- keep-alive pings and failing sends
\* The pairing with its two ping timers, and with message events whose
\* relaying send() throws.
Pings(ws) == Len(SelectSeq(ws.calls, LAMBDA c : c[1] = "ping"))

\* Faulty variant: the timer callback without its readyState test.
PingTick_NoStateTest(ws) == [ws EXCEPT !.calls = Append(@, <<"ping", 0, "">>)]

\* The callback of startWsPing's setInterval: ping when the socket is open.
PingTick(ws) ==
  IF ws.state # "open" THEN ws
  ELSE [ws EXCEPT !.calls = Append(@, <<"ping", 0, "">>)]

\* clientPing fires: the timer exists and has not been cleared.
ClientPingTick ==
  /\ clientWs.ping
  /\ Pings(clientWs) < MaxPings
  /\ clientWs' = PingTick(clientWs)
  /\ UNCHANGED << upstreamWs, received, sent, torn, calc, prober, pairs >>
  /\ UNCHANGED serverVars

\* upstreamPing fires.
UpstreamPingTick ==
  /\ upstreamWs.ping
  /\ Pings(upstreamWs) < MaxPings
  /\ upstreamWs' = PingTick(upstreamWs)
  /\ UNCHANGED << clientWs, received, sent, torn, calc, prober, pairs >>
  /\ UNCHANGED serverVars

\* Faulty variant: a failed send tears the pairing down.
SendThrew_Teardown(c, u) ==
  [c |-> [c EXCEPT !.state = "terminating", !.ping = FALSE,
                   !.calls = Append(@, <<"terminate", 0, "">>)],
   u |-> [u EXCEPT !.state = "terminating", !.ping = FALSE,
                   !.calls = Append(@, <<"terminate", 0, "">>)]]

\* `catch { // ignore }` around send(): the two sockets afterwards.
SendThrew(c, u) == [c |-> c, u |-> u]

\* clientWs.on("message") when upstreamWs.send() throws.
ClientMessageSendFails(frame) ==
  /\ clientWs.state \in {"open", "closing"}
  /\ upstreamWs.state = "open"
  /\ Len(received.client) < MaxFrames
  /\ received' = [received EXCEPT
       !.client = Append(@, [frame |-> frame, peerOpen |-> TRUE, threw |-> TRUE])]
  /\ sent' = [sent EXCEPT !.upstream = @ \o relay(frame, upstreamWs)]
  /\ clientWs' = SendThrew(clientWs, upstreamWs).c
  /\ upstreamWs' = SendThrew(clientWs, upstreamWs).u
  /\ UNCHANGED << torn, calc, prober, pairs >>
  /\ UNCHANGED serverVars

\* upstreamWs.on("message") when clientWs.send() throws.
UpstreamMessageSendFails(frame) ==
  /\ upstreamWs.state \in {"open", "closing"}
  /\ clientWs.state = "open"
  /\ Len(received.upstream) < MaxFrames
  /\ received' = [received EXCEPT
       !.upstream = Append(@, [frame |-> frame, peerOpen |-> TRUE, threw |-> TRUE])]
  /\ sent' = [sent EXCEPT !.client = @ \o relay(frame, clientWs)]
  /\ clientWs' = SendThrew(clientWs, upstreamWs).c
  /\ upstreamWs' = SendThrew(clientWs, upstreamWs).u
  /\ UNCHANGED << torn, calc, prober, pairs >>
  /\ UNCHANGED serverVars

KeepAliveNext ==
  \/ \E rq \in WsSamples : HandleUpgrade(rq)
  \/ UpstreamOpen
  \/ UpstreamConnectFails
  \/ \E cs \in CloseSamples : ClientPeerCloses(cs)
  \/ \E cs \in CloseSamples : UpstreamPeerCloses(cs)
  \/ \E cs \in CloseSamples : ClientCloseCompletes(cs)
  \/ \E cs \in CloseSamples : UpstreamCloseCompletes(cs)
  \/ ClientPingTick
  \/ UpstreamPingTick
  \/ \E frame \in FrameSamples : ClientMessageSendFails(frame)
  \/ \E frame \in FrameSamples : UpstreamMessageSendFails(frame)

KeepAliveSpec == BridgeInit /\ [][KeepAliveNext]_vars

\* --------------------------------------------------- one start attempt
\* The first start of an installed wrapper, from the call that creates it to
\* the answers of the handlers that waited for it.  Requests arrive while
\* nothing has been started, while the start is in flight, and while its
\* process is the handle; a request that would begin a second start is left
\* out, so the run ends when the first start is over.
AttemptInit ==
  /\ ServerIdle
  /\ calc = NoCalc
  /\ BridgeIdle
  /\ prober = NoProbe
  /\ pairs = <<>>

FirstAttemptOnly == spawnCount = 0 \/ gatewayStarting \/ gatewayProc # 0

\* The probe request in flight ends: by its response, its failure, or its
\* abort timer.
ProbeEnds == FetchFails \/ \E status \in StatusSamples : FetchResponds(status)

AttemptNext ==
  \/ FirstAttemptOnly /\ \E rq \in HttpSamples : HttpRequest(rq)
  \/ FirstAttemptOnly /\ \E rq \in WsSamples : WsUpgrade(rq)
  \/ ProbeEnds
  \/ PollSleepDone
  \/ RunMicrotask
  \/ \E p \in Pids : ProcExit(p)
  \/ \E p \in Pids : ProcError(p)
  \/ Finish

\* The event loop runs what is ready: a due timer, a completed fetch, a
\* queued continuation, the end of a handler that has answered.  With the
\* configuration present nothing that arrives meanwhile takes these away, so
\* weak fairness states it.
AttemptFairSpec ==
  /\ AttemptInit /\ [][AttemptNext]_vars
  /\ WF_vars(PollSleepDone)
  /\ WF_vars(ProbeEnds)
  /\ WF_vars(RunMicrotask)
  /\ WF_vars(Finish)

\* ---------------------------------------------- the readiness prober alone
\* One call of waitForGatewayReady() against a clock that counts ticks.  The
\* timers are exact: the abort timer of a probe fires ProbeReqTimeout ticks
\* after the probe began and sleep(pollMs) ends ProbePoll ticks after it
\* began.  The backend is "down" (it refuses, hangs or answers 5xx) and may
\* become "up" once; an up backend answers below 500 within the per-request
\* timeout, but a probe begun before it came up may still be lost.
ProbeStarts == {0, 3}

ProbeInit ==
  /\ ServerIdle
  /\ calc = NoCalc
  /\ BridgeIdle
  /\ \E t \in ProbeStarts, b \in {"down", "up"} :
       prober = [pc |-> "test", now |-> t, start |-> t, since |-> t, backend |-> b,
                 upAt |-> t, probes |-> <<>>, result |-> "none"]
  /\ pairs = <<>>

ProbeFrame ==
  /\ UNCHANGED serverVars
  /\ UNCHANGED << calc, bridgeVars, pairs >>

\* Faulty variant: the deadline is compared with the clock, not with the time
\* elapsed since the call.
LoopTest_AbsoluteClock ==
  /\ prober.pc = "test"
  /\ prober' = IF prober.now < ProbeTimeout
               THEN [prober EXCEPT !.pc = "fetching", !.since = prober.now]
               ELSE [prober EXCEPT !.pc = "done", !.result = "false"]
  /\ ProbeFrame

\* `while (Date.now() - start < timeoutMs)`: begin a probe, or return false.
LoopTest ==
  /\ prober.pc = "test"
  /\ prober' = IF prober.now - prober.start < ProbeTimeout
               THEN [prober EXCEPT !.pc = "fetching", !.since = prober.now]
               ELSE [prober EXCEPT !.pc = "done", !.result = "false"]
  /\ ProbeFrame

\* The statuses the backend answers with: below 500 only when it is up.
Answers(status) == IF prober.backend = "up" THEN status < 500 ELSE status >= 500

ProbeDone(status) ==
  Append(prober.probes, [at |-> prober.since, end |-> prober.now, status |-> status])

\* Faulty variant: any response makes the prober return true.
ProbeResponds_AnyStatus(status) ==
  /\ prober.pc = "fetching"
  /\ Answers(status)
  /\ prober' = [prober EXCEPT !.pc = "done", !.result = "true", !.probes = ProbeDone(status)]
  /\ ProbeFrame

\* The probe's fetch resolves with a response: `if (res && res.status < 500)
\* return true`, else sleep(pollMs).
ProbeResponds(status) ==
  /\ prober.pc = "fetching"
  /\ Answers(status)
  /\ prober' = IF status < 500
               THEN [prober EXCEPT !.pc = "done", !.result = "true", !.probes = ProbeDone(status)]
               ELSE [prober EXCEPT !.pc = "sleeping", !.since = prober.now,
                                   !.probes = ProbeDone(status)]
  /\ ProbeFrame

\* The probe's fetch rejects: connection refused at any moment, or aborted
\* when the per-request timer fires.  Status 0 stands for no response.
ProbeThrows ==
  /\ prober.pc = "fetching"
  /\ prober.backend = "down" \/ prober.since < prober.upAt
  /\ prober' = [prober EXCEPT !.pc = "sleeping", !.since = prober.now, !.probes = ProbeDone(0)]
  /\ ProbeFrame

\* sleep(pollMs) is over; the loop condition is tested next.
ProbeSleepDone ==
  /\ prober.pc = "sleeping"
  /\ prober.now - prober.since = ProbePoll
  /\ prober' = [prober EXCEPT !.pc = "test"]
  /\ ProbeFrame

\* The backend becomes responsive while the prober runs.
BackendUp ==
  /\ prober.pc \in {"fetching", "sleeping"}
  /\ prober.backend = "down"
  /\ prober' = [prober EXCEPT !.backend = "up", !.upAt = prober.now]
  /\ ProbeFrame

\* A tick of the clock; no timer of the prober is due.
Tick ==
  /\ \/ prober.pc = "fetching" /\ prober.now - prober.since < ProbeReqTimeout
     \/ prober.pc = "sleeping" /\ prober.now - prober.since < ProbePoll
  /\ prober' = [prober EXCEPT !.now = @ + 1]
  /\ ProbeFrame

ProbeNext ==
  \/ LoopTest
  \/ \E status \in StatusSamples : ProbeResponds(status)
  \/ ProbeThrows
  \/ ProbeSleepDone
  \/ BackendUp
  \/ Tick

ProbeSpec == ProbeInit /\ [][ProbeNext]_vars

\* ------------------------------------------------------------- properties
\* The handlers suspended on the start promise or queued to resume from it.
Suspended == {waiters[i] : i \in DOMAIN waiters} \cup {mq[i] : i \in DOMAIN mq}

\* Every ensureGatewayRunning() call that has not yet been forgotten.
Calls == {w.call : w \in Suspended} \cup {last.call}

Settled == attempt.state \in {"ready", "failed"}

\* What `await gatewayStarting` gives once the promise has settled.
Outcome == IF attempt.state = "ready" THEN "ok" ELSE "startFailed"

TrustHeaders ==
  { "forwarded", "x-forwarded-for", "x-forwarded-host", "x-forwarded-port",
    "x-forwarded-proto", "x-forwarded-server", "x-forwarded-ssl", "x-real-ip",
    "x-client-ip", "cf-connecting-ip", "true-client-ip" }

\* C1 - Single-flight start.  While a start is in flight exactly one spawn has
\* been made for it, by the first of the calls sharing it and by none of the
\* others; no call made with the configuration present returns while the start
\* it shares is unsettled, and each returns the outcome of that one start.
C1_SingleFlight ==
  /\ gatewayStarting =>
       /\ attempt.spawns = 1 /\ spawnCount = attempt.proc
       /\ waiters # <<>> /\ waiters[1].call.sawEmpty /\ waiters[1].call.spawned
       /\ \A i \in 2..Len(waiters) : ~waiters[i].call.spawned
  /\ mq # <<>> => Settled
  /\ \A w \in Suspended : w.call.cfg /\ w.call.during
  /\ (last.call.called /\ last.call.cfg /\ last.call.during) =>
       Settled /\ last.result = Outcome

\* C1 witness: the last of the calls sharing a start returns success after the
\* one spawn of the run.
C1_Witness ==
  /\ last.call.called /\ last.call.cfg /\ last.call.inFlight
  /\ last.result = "ok" /\ mq = <<>> /\ spawnCount = 1 /\ attempt.spawns = 1

\* C2 (as amended) - A call made with the configuration present while a start
\* is in flight spawns nothing, does not return before that start has settled
\* and the slot is empty again, and returns that start's outcome.
C2_JoinerAdoptsOutcome ==
  /\ \A w \in Suspended : w.call.inFlight => ~w.call.spawned
  /\ (last.call.called /\ last.call.cfg /\ last.call.inFlight) =>
       /\ ~last.call.spawned
       /\ ~gatewayStarting /\ Settled
       /\ last.result = Outcome

\* C2 as stated - the same for every call made while a start is in flight,
\* whether or not the configuration is present.
C2_AsStated ==
  /\ \A w \in Suspended : w.call.inFlight => ~w.call.spawned
  /\ (last.call.called /\ last.call.inFlight) =>
       /\ ~last.call.spawned
       /\ ~gatewayStarting /\ Settled
       /\ last.result = Outcome

\* C2 witness: a call that joined a start in flight returns that start's failure.
C2_Witness ==
  /\ last.call.called /\ last.call.cfg /\ last.call.inFlight
  /\ last.result = "startFailed" /\ attempt.state = "failed"

\* C3 as stated, read in the code's favour - at most one backend process that
\* has not been sent SIGTERM is alive (a process already told to stop is not
\* counted as a duplicate).
C3_NoDuplicateBackend == Cardinality({p \in Pids : procs[p] = "alive"}) <= 1

\* C4 (as amended) - A request is handed to the gateway only when the latest
\* start has passed its readiness probe; a request that waited for a start
\* which reached readiness is forwarded, or answered by the access gate's
\* redirect, and is never failed.
C4_NoPrematureProxying ==
  /\ last.resp \in {"proxied", "bridged"} => attempt.state = "ready"
  /\ \A w \in Suspended : w.kind \in {"http", "ws"} => w.call.during
  /\ (last.kind \in {"http", "ws"} /\ last.call.during /\ attempt.state = "ready") =>
       last.resp \in {"proxied", "bridged", "redirect"}

\* C4 as stated - every request that waited for a start which reached
\* readiness is forwarded.
C4_AsStated ==
  /\ last.resp \in {"proxied", "bridged"} => attempt.state = "ready"
  /\ (last.kind \in {"http", "ws"} /\ last.call.during /\ attempt.state = "ready") =>
       last.resp \in {"proxied", "bridged"}

\* C4 witness: an HTTP request that arrived while a start was in flight is
\* forwarded after the probe succeeded.
C4_Witness ==
  /\ last.kind = "http" /\ last.call.cfg /\ last.call.inFlight
  /\ last.resp = "proxied" /\ attempt.state = "ready"

\* C5 as stated, for the calls made with the configuration present - the
\* ensureGatewayRunning() call that restartGateway() performs spawns a process.
C5_RestartSpawnsFresh ==
  \A c \in Calls : (c.called /\ c.via = "restart" /\ c.cfg) => c.spawned

\* C6 - A call made with the configuration absent returns at once with the
\* not-installed outcome: it never suspends, spawns nothing, signals nothing,
\* starts no probe and leaves the handle and the slot as they were.
C6_NotConfigured ==
  /\ \A w \in Suspended : w.call.cfg
  /\ (last.call.called /\ ~last.call.cfg) =>
       /\ last.result = "notInstalled"
       /\ ~last.call.spawned
       /\ last.call.during = last.call.inFlight
       /\ last.call.kept

\* C6 witness: a call made with the configuration absent has returned.
C6_Witness ==
  /\ last.call.called /\ ~last.call.cfg /\ last.result = "notInstalled"
  /\ last.call.kept

\* C7 as stated - once a start has failed on the probe timeout, the process it
\* spawned has been sent SIGTERM (or is gone), the handle is empty, and every
\* call that waited on it returns the failure.
C7_TimeoutTerminates ==
  attempt.state = "failed" =>
    /\ procs[attempt.proc] # "alive"
    /\ gatewayProc = 0
    /\ last.call.during => last.result = "startFailed"

\* C8 - No retry by the supervisor: a start makes exactly one spawn and none
\* is added while it is in flight; after a failed start the handle and the
\* slot are empty; a call that finds both empty, with the configuration
\* present, begins a new start with a new spawn.
C8_NoSelfRetry ==
  /\ attempt.state # "none" => attempt.spawns = 1
  /\ gatewayStarting => spawnCount = attempt.proc
  /\ attempt.state = "failed" => (gatewayProc = 0 /\ ~gatewayStarting)
  /\ \A c \in Calls : (c.called /\ c.cfg /\ c.sawEmpty) => (c.spawned /\ c.during)

\* C8 witness: after a start failed on the timeout, a later call has begun a
\* second start with a second process.
C8_Witness ==
  /\ cleared = "timeout" /\ gatewayStarting /\ attempt.state = "probing"
  /\ attempt.proc = 2 /\ gatewayProc = 2 /\ waiters[1].call.sawEmpty

\* C9 - The handle never refers to a process that has exited: a call returns
\* success without waiting only on a live handle, and a call that finds the
\* handle and the slot empty spawns and probes anew.
C9_ExitClearsHandle ==
  /\ gatewayProc # 0 => Alive(gatewayProc)
  /\ (last.result = "ok" /\ ~last.call.during) => (gatewayProc # 0 /\ Alive(gatewayProc))
  /\ \A c \in Calls : (c.called /\ c.cfg /\ ~c.inFlight /\ c.sawEmpty) => c.spawned

\* C9 witness: the first process exited, its exit emptied the handle, and the
\* next call spawned a second process whose probe is under way.
C9_Witness ==
  /\ cleared = "exit" /\ procs[1] = "none" /\ spawnCount = 2
  /\ gatewayStarting /\ attempt.phase = "fetching" /\ gatewayProc = 2

\* C10 - Whatever is handed to the gateway, by proxy.web or as the upstream
\* WebSocket handshake, carries none of the eleven forwarding headers.
C10_NoTrustHeadersForwarded ==
  last.resp \in {"proxied", "bridged"} =>
    (DOMAIN last.fwd.hdrs) \cap TrustHeaders = {}

\* C10 witness: a WebSocket upgrade that carried forwarding headers is bridged.
C10_Witness ==
  /\ last.resp = "bridged"
  /\ (DOMAIN last.rq.hdrs) \cap TrustHeaders # {}

ClaimNavigation(r) ==
  \/ "accept" \notin DOMAIN r.hdrs
  \/ \E i \in DOMAIN r.hdrs["accept"] :
       toLowerCase(r.hdrs["accept"][i]) \in {"text/html", "application/xhtml+xml"}

ClaimGatedPath(r) == r.path \in {"/", "/moltbot"}

\* The request carries the access token: its one token parameter equals it.
ClaimTokenCorrect(r) ==
  /\ Len(ParamsNamed(r.query, "token")) = 1
  /\ ParamsNamed(r.query, "token")[1][2] = MOLTBOT_GATEWAY_TOKEN

EnsureSucceeded(fn) == calc.fn = fn /\ calc.out.outcome = "ok"

\* C12 as stated - once the gateway is running, a navigation to / or /moltbot
\* whose token parameter is missing or differs from the access token is
\* redirected to /moltbot with token=<access token>, and is not forwarded.
C12_GateRedirects ==
  (EnsureSucceeded("http") /\ ClaimNavigation(calc.arg) /\ ClaimGatedPath(calc.arg)
     /\ ~ClaimTokenCorrect(calc.arg)) =>
    /\ calc.out.resp = "redirect"
    /\ calc.out.location.path = "/moltbot"
    /\ ParamsNamed(calc.out.location.query, "token") = << <<"token", MOLTBOT_GATEWAY_TOKEN>> >>
    /\ calc.out.url = NoUrl

\* C13 - once the gateway is running, a navigation to / or /moltbot that
\* carries the access token is not redirected: it is forwarded with the path
\* and the query it came with.
C13_CorrectTokenForwarded ==
  (EnsureSucceeded("http") /\ ClaimNavigation(calc.arg) /\ ClaimGatedPath(calc.arg)
     /\ ClaimTokenCorrect(calc.arg)) =>
    /\ calc.out.resp = "proxied"
    /\ calc.out.url = [path |-> calc.arg.path, query |-> calc.arg.query]

\* C13 witness: a navigation to /moltbot?a=1&token=<access token> is forwarded.
C13_Witness ==
  /\ EnsureSucceeded("http") /\ calc.out.resp = "proxied"
  /\ calc.arg.path = "/moltbot"
  /\ calc.arg.query = << <<"a", <<"1">>>>, <<"token", MOLTBOT_GATEWAY_TOKEN>> >>
  /\ "accept" \in DOMAIN calc.arg.hdrs /\ ClaimNavigation(calc.arg)

\* C14 as stated - a request whose accept header is present and names neither
\* text/html nor application/xhtml+xml, or whose path is neither / nor
\* /moltbot, is never redirected, whatever its token; an upgrade is never
\* redirected.
C14_GateExempt ==
  /\ (calc.fn = "http" /\ (~ClaimNavigation(calc.arg) \/ ~ClaimGatedPath(calc.arg))) =>
       calc.out.resp # "redirect"
  /\ calc.fn = "upgrade" => calc.out.resp # "redirect"

\* C15 - When ensureGatewayRunning() throws for an HTTP request, the
\* middleware answers 503 and hands nothing to the gateway.
C15_StartFailureIs503 ==
  (last.kind = "http" /\ last.result = "startFailed") =>
    (last.resp = "503" /\ last.fwd = NoFwd)

\* C15 witness: an HTTP request that waited for a start which failed is
\* answered 503.
C15_Witness ==
  /\ last.kind = "http" /\ last.call.cfg /\ last.call.during
  /\ last.result = "startFailed" /\ last.resp = "503"

\* C16 (as amended) - With the configuration absent, the proxy middleware
\* answers 404 to a path that begins with /install or is /healthz and the
\* landing page to every other path; it never answers 503, never calls the
\* supervisor, spawns nothing and forwards nothing.
C16_LandingWhenNotConfigured ==
  (last.kind = "http" /\ ~configured) =>
    /\ last.resp = IF last.rq.path \in InstallPrefixed \cup {"/healthz"}
                   THEN "404" ELSE "landing"
    /\ ~last.call.called /\ last.fwd = NoFwd
    /\ ~gatewayStarting /\ waiters = <<>> /\ spawnCount <= 1

\* C16 as stated - with the configuration absent, every request reaching the
\* proxy middleware gets the landing page.
C16_AsStated ==
  (last.kind = "http" /\ ~configured) =>
    /\ last.resp = "landing"
    /\ ~last.call.called /\ last.fwd = NoFwd

\* C16 witness: a request is answered with the landing page while the gateway
\* started before the reset is still running.
C16_Witness ==
  /\ last.kind = "http" /\ ~configured /\ last.resp = "landing"
  /\ gatewayProc = 1 /\ procs[1] = "alive"

\* C20 - An upgrade is refused by destroying the socket, with no upstream
\* connection, when the configuration is absent (the supervisor is then not
\* called) and when ensureGatewayRunning() throws.
C20_UpgradeRefused ==
  /\ (last.kind = "ws" /\ ~last.call.called) =>
       (last.resp = "destroyed" /\ last.fwd = NoFwd)
  /\ (last.kind = "ws" /\ last.result = "startFailed") =>
       (last.resp = "destroyed" /\ last.fwd = NoFwd)
  /\ \A w \in Suspended : w.kind = "ws" => w.call.cfg

\* C20 witness: an upgrade that waited for a start which failed is destroyed.
C20_Witness ==
  /\ last.kind = "ws" /\ last.call.cfg /\ last.call.during
  /\ last.result = "startFailed" /\ last.resp = "destroyed"

\* The side a shutdown() call has to close: the one that did not close.
OtherSide(who) == IF who = "client" THEN upstreamWs ELSE clientWs

Made(ws, call) == \E j \in 1..Len(ws.calls) : ws.calls[j] = call

\* C17 -- WebSocket teardown is symmetric: whenever one side of the pairing
\* has closed with code c and reason r while the other side was not yet
\* closing or closed, both ping timers are cancelled and close(c, r) has been
\* attempted on the other side, followed by terminate() if c cannot be sent.
C17_TeardownSymmetric ==
  \A i \in 1..Len(torn) :
    /\ ~clientWs.ping /\ ~upstreamWs.ping
    /\ torn[i].other \in {"connecting", "open"} =>
         /\ Made(OtherSide(torn[i].who), <<"close", torn[i].code, torn[i].reason>>)
         /\ ~isValidStatusCode(torn[i].code) =>
              Made(OtherSide(torn[i].who), <<"terminate", torn[i].code, torn[i].reason>>)

\* C18 -- no dangling socket: once one side of the pairing is closed, the
\* other side is eventually closed as well.
C18_NoDanglingSocket ==
  /\ (clientWs.state = "closed") ~> (upstreamWs.state = "closed")
  /\ (upstreamWs.state = "closed") ~> (clientWs.state = "closed")

\* The frames of a side's message events that arrived while the peer was open,
\* as the send() calls that relay them unchanged.
Forwardable(log) ==
  LET open == SelectSeq(log, LAMBDA e : e.peerOpen)
  IN  [i \in 1..Len(open) |-> [data |-> open[i].frame.data, binary |-> open[i].frame.isBinary]]

\* C19 -- the relay preserves frames: the send() calls made on the upstream
\* are exactly the frames received from the client while the upstream was
\* open, once each, in arrival order, with payload and binary flag unchanged;
\* and in the same way from the upstream to the client.
C19_RelayPreservesFrames ==
  /\ sent.upstream = Forwardable(received.client)
  /\ sent.client = Forwardable(received.upstream)

\* Two different frames, a binary one and then a text one, have been relayed
\* to the upstream, and a binary frame to the client.
C19_Witness ==
  /\ Len(sent.upstream) = 2
  /\ sent.upstream[1] = [data |-> "b", binary |-> TRUE]
  /\ sent.upstream[2] = [data |-> "a", binary |-> FALSE]
  /\ Len(sent.client) >= 1
  /\ sent.client[1].binary
  /\ clientWs.state = "open" /\ upstreamWs.state = "open"

\* What the readiness prober has seen: a probe is answered when its response
\* has a status below 500.
Answered200(pr) == pr.status > 0 /\ pr.status < 500

Elapsed == prober.now - prober.start

\* C21 as stated - once the backend has become responsive the prober does
\* not return false, and it returns true no later than timeoutTotal +
\* pollInterval after that moment; it returns true only if the backend has
\* responded within timeoutTotal of the call.
C21_AsStated ==
  /\ prober.backend = "up" =>
       /\ prober.result # "false"
       /\ prober.result = "none" => prober.now - prober.upAt <= ProbeTimeout + ProbePoll
  /\ prober.result = "true" =>
       \E i \in DOMAIN prober.probes :
         Answered200(prober.probes[i]) /\ prober.probes[i].end - prober.start <= ProbeTimeout

\* C21 (as amended) - once the backend has become responsive the prober
\* returns within twice the per-request timeout plus the poll interval, and
\* it returns true if it began a probe after that moment; it returns
\* false only when timeoutTotal has elapsed, within timeoutTotal + the
\* per-request timeout + the poll interval of the call, and always when the
\* backend never became responsive; it returns true only on a response to a
\* probe begun within timeoutTotal.
C21_ReadinessWithinBound ==
  /\ (prober.backend = "up" /\ prober.result = "none") =>
       prober.now - prober.upAt <= 2 * ProbeReqTimeout + ProbePoll
  /\ (prober.backend = "up" /\ prober.result = "false") =>
       \A i \in DOMAIN prober.probes : prober.probes[i].at <= prober.upAt
  /\ prober.result = "false" => Elapsed >= ProbeTimeout
  /\ prober.result = "none" => Elapsed < ProbeTimeout + ProbeReqTimeout + ProbePoll
  /\ (prober.pc = "done" /\ prober.backend = "down") => prober.result = "false"
  /\ prober.result = "true" =>
       \E i \in DOMAIN prober.probes :
         Answered200(prober.probes[i]) /\ prober.probes[i].at - prober.start < ProbeTimeout

\* C21 witness: the backend became responsive after a first probe had failed
\* and the prober returned true on a later probe.
C21_Witness ==
  /\ prober.result = "true" /\ prober.upAt > prober.start
  /\ Len(prober.probes) >= 2 /\ prober.probes[1].status = 0
  /\ prober.probes[Len(prober.probes)].at > prober.upAt

LastProbe == prober.probes[Len(prober.probes)]

\* C26 - the prober returns true exactly when a probe begun before the
\* deadline is answered with a status below 500, and that probe is its last;
\* after a probe that throws or is answered with 500 or more it sleeps the
\* poll interval and begins the next probe if the deadline allows, and
\* returns false only when the deadline test fails.
C26_ProberOutcome ==
  /\ \A i \in DOMAIN prober.probes :
       /\ prober.probes[i].at - prober.start < ProbeTimeout
       /\ Answered200(prober.probes[i]) => (i = Len(prober.probes) /\ prober.result = "true")
       /\ i > 1 => prober.probes[i].at = prober.probes[i - 1].end + ProbePoll
  /\ prober.result = "true" => (prober.probes # <<>> /\ Answered200(LastProbe))
  /\ prober.result = "false" =>
       /\ Elapsed >= ProbeTimeout
       /\ prober.probes # <<>> /\ prober.now = LastProbe.end + ProbePoll
  /\ (prober.pc = "sleeping" /\ prober.probes # <<>>) =>
       (~Answered200(LastProbe) /\ prober.since = LastProbe.end)
  /\ (prober.pc = "fetching" /\ prober.probes # <<>>) => prober.since = LastProbe.end + ProbePoll

\* C26 witness: a probe answered 503 was followed by the poll sleep and a
\* second probe, which was answered 404.
C26_Witness ==
  /\ prober.result = "true" /\ Len(prober.probes) = 2
  /\ prober.probes[1].status = 503 /\ prober.probes[2].status = 404
  /\ prober.probes[2].at = prober.probes[1].end + ProbePoll

\* C22 as stated - the access gate comes before the supervisor: a navigation
\* to / or /moltbot with a missing or wrong token, arriving with the
\* configuration present, is answered by the redirect whatever the outcome of
\* ensureGatewayRunning().
C22_GateBeforeSupervisor ==
  (last.kind = "http" /\ last.call.called /\ ClaimNavigation(last.rq)
     /\ ClaimGatedPath(last.rq) /\ last.rq.token # MOLTBOT_GATEWAY_TOKEN) =>
    last.resp = "redirect"

\* C24 - a call that finds a handle and no start in flight returns success
\* in the same run of the event loop: it never suspends, spawns nothing,
\* starts no probe and leaves the handle, the slot and the processes as they
\* were.
C24_HandleShortCircuit ==
  /\ \A w \in Suspended : w.call.inFlight \/ w.call.sawEmpty
  /\ (last.call.called /\ ~last.call.inFlight /\ ~last.call.sawEmpty) =>
       /\ last.result = "ok"
       /\ ~last.call.during
       /\ ~last.call.spawned
       /\ last.call.kept

\* C24 witness: a request that found the running gateway's handle and an
\* empty slot has been forwarded at once.
C24_Witness ==
  /\ last.call.called /\ ~last.call.inFlight /\ ~last.call.sawEmpty
  /\ last.result = "ok" /\ last.resp = "proxied"
  /\ gatewayProc # 0 /\ ~gatewayStarting /\ attempt.state = "ready"

\* C25 - every start attempt resolves, and its resolution empties the slot:
\* the slot holds a promise exactly while the latest attempt is unresolved,
\* nobody waits on a resolved attempt, a start in flight always comes to an
\* end, and every handler waiting for it is resumed and answers.
C25_AttemptResolves ==
  /\ [](gatewayStarting <=> attempt.state = "probing")
  /\ [](waiters # <<>> => gatewayStarting)
  /\ [](\A c \in Calls : (c.called /\ c.inFlight /\ c.cfg) => c.during)
  /\ (gatewayStarting \/ waiters # <<>> \/ mq # <<>>) ~>
       (~gatewayStarting /\ waiters = <<>> /\ mq = <<>>)

\* C25 witness: a start has failed on the probe deadline, the slot is empty
\* and a handler that waited for it is answered with the failure.
C25_Witness ==
  /\ attempt.state = "failed" /\ ~gatewayStarting /\ waiters = <<>>
  /\ last.call.during /\ last.result = "startFailed"

\* The close() and terminate() calls made on a socket so far.
Closings(ws) == Len(SelectSeq(ws.calls, LAMBDA c : c[1] \in {"close", "terminate"}))

\* C28 - a relay send that throws is swallowed: the step of the message
\* handler makes no close or terminate call, cancels no ping timer and
\* changes neither socket; close and terminate calls are made, and ping
\* timers cancelled, only in the handling of a close event.
C28_FailedSendSwallowed ==
  /\ [][(received' # received) =>
          (clientWs' = clientWs /\ upstreamWs' = upstreamWs /\ torn' = torn)]_vars
  /\ [][(torn' = torn) =>
          /\ Closings(clientWs)' = Closings(clientWs)
          /\ Closings(upstreamWs)' = Closings(upstreamWs)
          /\ clientWs.ping => clientWs'.ping
          /\ upstreamWs.ping => upstreamWs'.ping]_vars

\* C28 witness: sends have thrown in both directions and the pairing is
\* still open on both sides with both ping timers running.
C28_Witness ==
  /\ received.client # <<>> /\ received.client[1].threw
  /\ received.upstream # <<>> /\ received.upstream[1].threw
  /\ clientWs.state = "open" /\ upstreamWs.state = "open"
  /\ clientWs.ping /\ upstreamWs.ping /\ torn = <<>>

\* C29 - each side has its own ping timer from the pairing until the first
\* close event of either side, which cancels both; a ping is sent on a socket
\* only when that socket is open and no close event has been handled.
C29_PingTimers ==
  /\ []((clientWs.state # "none" /\ torn = <<>>) => (clientWs.ping /\ upstreamWs.ping))
  /\ [](torn # <<>> => (~clientWs.ping /\ ~upstreamWs.ping))
  /\ [][(Pings(clientWs)' > Pings(clientWs)) =>
          (clientWs.state = "open" /\ clientWs.ping /\ torn = <<>> /\ upstreamWs' = upstreamWs)]_vars
  /\ [][(Pings(upstreamWs)' > Pings(upstreamWs)) =>
          (upstreamWs.state = "open" /\ upstreamWs.ping /\ torn = <<>> /\ clientWs' = clientWs)]_vars

\* C29 witness: both timers have sent pings, then a close event cancelled
\* both.
C29_Witness ==
  /\ Pings(clientWs) = 2 /\ Pings(upstreamWs) = 1
  /\ torn # <<>> /\ ~clientWs.ping /\ ~upstreamWs.ping

\* C30 - when the upstream connection fails before it opened, the client
\* socket does not stay open: it has been terminated, unless it had already
\* closed.
C30_ConnectFailureClosesClient ==
  \A i \in 1..Len(torn) :
    (torn[i].who = "upstream" /\ torn[i].was = "connecting") =>
      /\ clientWs.state \in {"terminating", "closed"}
      /\ torn[i].other = "open" => Made(clientWs, <<"terminate", torn[i].code, torn[i].reason>>)

\* C30 witness: the upstream connection failed while the client was open and
\* the client socket is being destroyed.
C30_Witness ==
  /\ Len(torn) = 1 /\ torn[1].who = "upstream" /\ torn[1].was = "connecting"
  /\ torn[1].other = "open" /\ clientWs.state = "terminating"

\* ------------------------------------------------------ several pairings
\* Each accepted upgrade runs the handleUpgrade callback once; the callback's
\* sockets, timers and shutdown() are constants of that one call.
MaxPairs == 2

PairCloseSamples == {<<1000, "bye">>, Abnormal}

NewPair(rq, fwd, conn) ==
  [c |-> [state |-> "open", ping |-> TRUE, calls |-> <<>>, handshake |-> rq],
   u |-> [state |-> "connecting", ping |-> TRUE, calls |-> <<>>, handshake |-> fwd],
   conn |-> conn, closes |-> 0]

\* The pairing p after the close event cs of its socket `who`.
PairAfterClose(p, who, cs) ==
  LET r == shutdown(who, cs[1], cs[2],
                    IF who = "client" THEN [p.c EXCEPT !.state = "closed"] ELSE p.c,
                    IF who = "upstream" THEN [p.u EXCEPT !.state = "closed"] ELSE p.u)
  IN  [p EXCEPT !.c = r.c, !.u = r.u, !.closes = @ + 1]

\* Faulty variant: sockets and timers held in variables shared by all
\* callbacks, so that a shutdown reaches every pairing.
Teardown_AllPairs(i, who, cs) ==
  [j \in DOMAIN pairs |->
     IF j = i THEN PairAfterClose(pairs[j], who, cs)
     ELSE LET r == shutdown(who, cs[1], cs[2], pairs[j].c, pairs[j].u)
          IN  [pairs[j] EXCEPT !.c = r.c, !.u = r.u]]

\* The pairings after the close event cs of socket `who` of pairing i:
\* shutdown() works on the sockets and timers of its own callback.
Teardown(i, who, cs) ==
  [pairs EXCEPT ![i] = PairAfterClose(@, who, cs)]

PairFrame ==
  /\ UNCHANGED serverVars
  /\ UNCHANGED << calc, bridgeVars, prober >>

\* Faulty variant: the callback reuses the upstream connection of the first
\* pairing.
PairUpgrade_SharedUpstream ==
  /\ last.kind = "ws" /\ last.resp = "bridged"
  /\ pairs' = Append(pairs, NewPair(last.rq, last.fwd, 1))
  /\ last' = NoAnswer
  /\ UNCHANGED << configured, waiters, mq, sleepers, busy >>
  /\ UNCHANGED supVars
  /\ UNCHANGED << calc, bridgeVars, prober >>

\* wsServer.handleUpgrade(...) completes the client handshake and calls back:
\* the callback constructs the upstream WebSocket and starts both timers.
PairUpgrade ==
  /\ last.kind = "ws" /\ last.resp = "bridged"
  /\ pairs' = Append(pairs, NewPair(last.rq, last.fwd, Len(pairs) + 1))
  /\ last' = NoAnswer
  /\ UNCHANGED << configured, waiters, mq, sleepers, busy >>
  /\ UNCHANGED supVars
  /\ UNCHANGED << calc, bridgeVars, prober >>

\* wsServer.handleUpgrade(...) rejects the handshake: no callback.
HandshakeAborted ==
  /\ last.kind = "ws" /\ last.resp = "bridged"
  /\ Finish

\* The upgrade handler destroyed the socket.
FinishDestroyed ==
  /\ last.resp # "bridged"
  /\ Finish

PairUpstreamOpen(i) ==
  /\ Quiet
  /\ pairs[i].u.state = "connecting"
  /\ pairs' = [pairs EXCEPT ![i].u.state = "open"]
  /\ PairFrame

PairUpstreamConnectFails(i) ==
  /\ Quiet
  /\ pairs[i].u.state = "connecting"
  /\ pairs' = Teardown(i, "upstream", Abnormal)
  /\ PairFrame

PairClientPeerCloses(i, cs) ==
  /\ Quiet
  /\ pairs[i].c.state = "open"
  /\ pairs' = Teardown(i, "client", cs)
  /\ PairFrame

PairUpstreamPeerCloses(i, cs) ==
  /\ Quiet
  /\ pairs[i].u.state = "open"
  /\ pairs' = Teardown(i, "upstream", cs)
  /\ PairFrame

PairClientCloseCompletes(i, cs) ==
  /\ Quiet
  /\ pairs[i].c.state \in {"closing", "terminating"}
  /\ pairs' = Teardown(i, "client", IF pairs[i].c.state = "terminating" THEN Abnormal ELSE cs)
  /\ PairFrame

PairUpstreamCloseCompletes(i, cs) ==
  /\ Quiet
  /\ pairs[i].u.state \in {"closing", "terminating"}
  /\ pairs' = Teardown(i, "upstream", IF pairs[i].u.state = "terminating" THEN Abnormal ELSE cs)
  /\ PairFrame

\* An upgrade is taken while the pairings made and the upgrades in progress
\* stay within MaxPairs.
PairsAccepting == Len(pairs) + InProgress < MaxPairs

PairsNext ==
  \/ PairsAccepting /\ \E rq \in WsSamples : WsUpgrade(rq)
  \/ ProbeEnds
  \/ PollSleepDone
  \/ RunMicrotask
  \/ \E p \in Pids : ProcExit(p)
  \/ \E p \in Pids : ProcError(p)
  \/ FinishDestroyed
  \/ PairUpgrade
  \/ HandshakeAborted
  \/ \E i \in DOMAIN pairs : PairUpstreamOpen(i)
  \/ \E i \in DOMAIN pairs : PairUpstreamConnectFails(i)
  \/ \E i \in DOMAIN pairs, cs \in PairCloseSamples : PairClientPeerCloses(i, cs)
  \/ \E i \in DOMAIN pairs, cs \in PairCloseSamples : PairUpstreamPeerCloses(i, cs)
  \/ \E i \in DOMAIN pairs, cs \in PairCloseSamples : PairClientCloseCompletes(i, cs)
  \/ \E i \in DOMAIN pairs, cs \in PairCloseSamples : PairUpstreamCloseCompletes(i, cs)

PairsSpec == AttemptInit /\ [][PairsNext]_vars

C27_PairingOrder ==
  /\ [][(Len(pairs') # Len(pairs)) =>
          /\ last.kind = "ws" /\ last.call.called /\ last.result = "ok"
          /\ Len(pairs') = Len(pairs) + 1
          /\ \A j \in DOMAIN pairs : pairs'[j] = pairs[j]
          /\ LET p == pairs'[Len(pairs')]
             IN  /\ p.c.state = "open" /\ p.c.handshake = last.rq
                 /\ p.u.state = "connecting" /\ p.u.handshake = last.fwd
                 /\ \A j \in DOMAIN pairs : pairs[j].conn # p.conn]_vars
  /\ [](\A i, j \in DOMAIN pairs : i # j => pairs[i].conn # pairs[j].conn)
  /\ []((last.kind = "ws" /\ last.result # "ok") => last.resp = "destroyed")

\* C27 witness: two pairings, the first made by the upgrade that waited for
\* the start, each with its own upstream connection, both connected.
C27_Witness ==
  /\ Len(pairs) = 2
  /\ pairs[1].conn # pairs[2].conn
  /\ pairs[1].u.state = "open" /\ pairs[2].u.state = "open"
  /\ pairs[1].c.state = "open" /\ pairs[2].c.state = "open"

\* The parameters of a query other than token, in order.
OtherParams(query) == SelectSeq(query, LAMBDA pr : pr[1] # "token")

\* C31 - the Location of the access gate's redirect, requested once the
\* gateway is running, is not redirected again whatever headers come with it:
\* it is forwarded with path /moltbot, with exactly one token parameter whose
\* value is the access token, and with the other query parameters of the
\* original request in their order.
C31_RedirectDoesNotLoop ==
  (EnsureSucceeded("http") /\ calc.again # <<>>) =>
    /\ calc.out.resp = "proxied"
    /\ calc.out.url.path = "/moltbot"
    /\ ParamsNamed(calc.out.url.query, "token") = << <<"token", MOLTBOT_GATEWAY_TOKEN>> >>
    /\ OtherParams(calc.out.url.query) = OtherParams(calc.again[1].query)
    /\ Len(calc.again) = 1

\* C31 witness: GET /?a=1&token=x was redirected, and its Location has been
\* requested and forwarded as /moltbot?a=1&token=<access token>.
C31_Witness ==
  /\ EnsureSucceeded("http") /\ calc.out.resp = "proxied"
  /\ Len(calc.again) = 1 /\ calc.again[1].path = "/"
  /\ calc.again[1].query = << <<"a", <<"1">>>>, <<"token", <<"x">>>> >>
  /\ calc.out.url.query = << <<"a", <<"1">>>>, <<"token", MOLTBOT_GATEWAY_TOKEN>> >>

\* ------------------------------------------- the upstream handshake alone
\* The sec-websocket-protocol header as Node gives it: absent, or one string
\* (repeated header lines are joined by Node, so the array branch of line
\* 1000 is never taken).  A string is a sequence of characters.
MaxProtoLen == 4
ProtoChars == {"a", "b", ",", " "}
ProtoRaws == UNION {[1..n -> ProtoChars] : n \in 0..MaxProtoLen}
ProtoSamples ==
  {[present |-> TRUE, raw |-> s] : s \in ProtoRaws} \cup {[present |-> FALSE, raw |-> <<>>]}

HandshakeNames ==
  {"connection", "upgrade", "sec-websocket-key", "sec-websocket-version",
   "sec-websocket-extensions"}
WsHeaderNames ==
  HandshakeNames \cup {"host", "origin", "x-forwarded-for", "x-real-ip"}
WsHeaderSets ==
  UNION {[S -> {<<"a">>}] : S \in {T \in SUBSET WsHeaderNames : Cardinality(T) <= MaxHeaders}}

\* String.prototype.split(","): the pieces between the commas, empty pieces
\* included; cur is the piece being read.
RECURSIVE SplitFrom(_, _)
SplitFrom(s, cur) ==
  IF s = <<>> THEN << cur >>
  ELSE IF Head(s) = "," THEN << cur >> \o SplitFrom(Tail(s), <<>>)
  ELSE SplitFrom(Tail(s), Append(cur, Head(s)))

Undefined == [defined |-> FALSE, list |-> <<>>]

\* Faulty variant: the pieces are not trimmed.
parseWsProtocols_NoTrim(p) ==
  IF ~p.present \/ p.raw = <<>> THEN Undefined
  ELSE LET pieces == SplitFrom(p.raw, <<>>)
           parts == SelectSeq(pieces, LAMBDA x : x # <<>>)
       IN  IF parts = <<>> THEN Undefined ELSE [defined |-> TRUE, list |-> parts]

\* parseWsProtocols(req): split at commas, trim, drop the empty pieces;
\* undefined without the header or without a piece left.
parseWsProtocols(p) ==
  IF ~p.present \/ p.raw = <<>> THEN Undefined
  ELSE LET pieces == SplitFrom(p.raw, <<>>)
           trimmed == [i \in DOMAIN pieces |-> trim(pieces[i])]
           parts == SelectSeq(trimmed, LAMBDA x : x # <<>>)
       IN  IF parts = <<>> THEN Undefined ELSE [defined |-> TRUE, list |-> parts]

\* Faulty variant: the headers are deleted from req.headers itself.
CopyHeaders_Alias(h) == [copy |-> buildUpstreamWsHeaders(h), req |-> buildUpstreamWsHeaders(h)]

\* `const headers = { ...req.headers }` and what follows: the copy that is
\* returned, and req.headers after the call.
CopyHeaders(h) == [copy |-> buildUpstreamWsHeaders(h), req |-> h]

\* req.headers of the upgrade request: the sampled headers and, when it was
\* sent, sec-websocket-protocol.
RequestHeaders(arg) ==
  IF arg.proto.present THEN ("sec-websocket-protocol" :> arg.proto.raw) @@ arg.hdrs
  ELSE arg.hdrs

HandshakeInit ==
  /\ ServerIdle
  /\ BridgeIdle
  /\ prober = NoProbe
  /\ pairs = <<>>
  /\ \E h \in WsHeaderSets, p \in ProtoSamples :
       calc = [fn |-> "callback", arg |-> [hdrs |-> h, proto |-> p],
               out |-> <<>>, again |-> <<>>]

\* The handleUpgrade callback up to `new WebSocket(upstreamUrl, protocols,
\* { headers })`: the arguments of the constructor and req.headers afterwards.
NewUpstream ==
  /\ calc.fn = "callback"
  /\ LET r == CopyHeaders(RequestHeaders(calc.arg))
     IN  calc' = [calc EXCEPT
           !.fn = "constructed",
           !.out = [protocols |-> parseWsProtocols(calc.arg.proto),
                    headers |-> r.copy, req |-> r.req]]
  /\ UNCHANGED serverVars
  /\ UNCHANGED << bridgeVars, prober, pairs >>

HandshakeNext == NewUpstream

HandshakeSpec == HandshakeInit /\ [][HandshakeNext]_vars

\* The claim's words for the subprotocol list: the pieces of the header
\* between its commas, in order, each without the spaces around it, the
\* empty ones left out.
Cuts(s) == {0, Len(s) + 1} \cup {i \in 1..Len(s) : s[i] = ","}
CutAt(s, k) == CHOOSE c \in Cuts(s) : Cardinality({d \in Cuts(s) : d < c}) = k - 1
Piece(s, k) == SubSeq(s, CutAt(s, k) + 1, CutAt(s, k + 1) - 1)
Inner(x) ==
  LET solid == {i \in 1..Len(x) : x[i] # " "}
  IN  IF solid = {} THEN <<>>
      ELSE SubSeq(x, CHOOSE i \in solid : \A j \in solid : i <= j,
                     CHOOSE i \in solid : \A j \in solid : i >= j)
ClaimProtocols(s) ==
  SelectSeq([k \in 1..(Cardinality(Cuts(s)) - 1) |-> Inner(Piece(s, k))],
            LAMBDA x : x # <<>>)

\* C32 - the headers given to the upstream WebSocket are the request's
\* headers without the forwarding names and without connection, upgrade,
\* sec-websocket-key, sec-websocket-version and sec-websocket-extensions,
\* with host set to the gateway's host:port; req.headers is as it was; the
\* subprotocols given are the header's comma-separated pieces, trimmed, the
\* empty ones dropped, in order (none when the header is absent).
C32_UpstreamHandshake ==
  calc.fn = "constructed" =>
    /\ DOMAIN calc.out.headers =
         ((DOMAIN RequestHeaders(calc.arg)) \ (TrustHeaders \cup HandshakeNames)) \cup {"host"}
    /\ \A n \in (DOMAIN calc.out.headers) \ {"host"} :
         calc.out.headers[n] = RequestHeaders(calc.arg)[n]
    /\ calc.out.headers["host"] = INTERNAL_HOSTPORT
    /\ calc.out.req = RequestHeaders(calc.arg)
    /\ calc.out.protocols.list =
         (IF calc.arg.proto.present THEN ClaimProtocols(calc.arg.proto.raw) ELSE <<>>)
    /\ calc.out.protocols.defined <=> calc.out.protocols.list # <<>>

\* C32 witness: the header " a,," with a forwarding header, a handshake
\* header and origin gives the one subprotocol a and the headers host,
\* origin and sec-websocket-protocol.
C32_Witness ==
  /\ calc.fn = "constructed"
  /\ calc.arg.proto.raw = <<" ", "a", ",", ",">>
  /\ DOMAIN calc.arg.hdrs = {"x-real-ip", "upgrade", "origin"}
  /\ calc.out.protocols.list = << <<"a">> >>
  /\ DOMAIN calc.out.headers = {"host", "origin", "sec-websocket-protocol"}

\* ------------------------------------------- the import filter alone
\* A tar entry path: its segments between slashes, whether it begins with a
\* slash and whether it ends with one.  Without segments it is "" or "/".
MaxSegs == 3
SegSamples == {".", "..", ".moltbot", "workspace", "x", "nul"}
\* The segment that contains a NUL character.
HasNul(seg) == seg = "nul"
TarSegs == UNION {[1..n -> SegSamples] : n \in 0..MaxSegs}
TarPaths ==
  {p \in [abs : BOOLEAN, segs : TarSegs, trail : BOOLEAN] : p.segs # <<>> \/ ~p.trail}

\* path.posix.normalize on the segments: "." is dropped, ".." removes the
\* segment before it, or stays when there is none and the path is relative.
RECURSIVE NormalizeFrom(_, _, _)
NormalizeFrom(segs, done, abs) ==
  IF segs = <<>> THEN done
  ELSE LET s == Head(segs)
       IN  IF s = "." THEN NormalizeFrom(Tail(segs), done, abs)
           ELSE IF s = ".."
           THEN IF done # <<>> /\ done[Len(done)] # ".."
                THEN NormalizeFrom(Tail(segs), SubSeq(done, 1, Len(done) - 1), abs)
                ELSE IF abs THEN NormalizeFrom(Tail(segs), done, abs)
                ELSE NormalizeFrom(Tail(segs), Append(done, ".."), abs)
           ELSE NormalizeFrom(Tail(segs), Append(done, s), abs)

normalize(p) == NormalizeFrom(p.segs, <<>>, p.abs)

isSafeTarPath(p) ==
  /\ ~(~p.abs /\ p.segs = <<>>)
  /\ ~p.abs
  /\ \A i \in DOMAIN p.segs : ~HasNul(p.segs[i])
  /\ LET norm == normalize(p) IN ~(norm # <<>> /\ norm[1] = "..")

\* p === root || p.startsWith(root + "/"), on the path as given.
IsOrBeginsWith(p, root) ==
  \/ ~p.abs /\ p.segs = << root >> /\ ~p.trail
  \/ ~p.abs /\ p.segs # <<>> /\ p.segs[1] = root /\ (Len(p.segs) > 1 \/ p.trail)

canRestoreFromTarPath(p) ==
  /\ isSafeTarPath(p)
  /\ IsOrBeginsWith(p, ".moltbot") \/ IsOrBeginsWith(p, "workspace")

TarInit ==
  /\ ServerIdle
  /\ BridgeIdle
  /\ prober = NoProbe
  /\ pairs = <<>>
  /\ \E p \in TarPaths : calc = [fn |-> "entry", arg |-> p, out |-> <<>>, again |-> <<>>]

\* tar.x calls the filter with the path of an entry.
FilterEntry ==
  /\ calc.fn = "entry"
  /\ calc' = [calc EXCEPT !.fn = "filtered",
                          !.out = [restore |-> canRestoreFromTarPath(calc.arg),
                                   norm |-> normalize(calc.arg)]]
  /\ UNCHANGED serverVars
  /\ UNCHANGED << bridgeVars, prober, pairs >>

TarNext == FilterEntry

TarSpec == TarInit /\ [][TarNext]_vars

\* C33 as stated - the filter lets an entry through only if its path is
\* relative, holds no NUL and, with its "." and ".." segments resolved, is
\* .moltbot or workspace or lies below one of them.
C33_RestoreInsideRoots ==
  (calc.fn = "filtered" /\ calc.out.restore) =>
    /\ ~calc.arg.abs
    /\ \A i \in DOMAIN calc.arg.segs : ~HasNul(calc.arg.segs[i])
    /\ calc.out.norm # <<>>
    /\ calc.out.norm[1] \in {".moltbot", "workspace"}

\* C34 as stated - an exit or error event of a process that the handle does
\* not refer to leaves the handle as it is.
C34_StaleEventKeepsHandle ==
  [][\A p \in Pids :
       (Alive(p) /\ procs'[p] = "none" /\ gatewayProc # p) => gatewayProc' = gatewayProc]_vars

\* ------------------------------------------------- overlapping restarts
\* The gateway is running and imports arrive; the restarts they end with
\* overlap: no restart leaves its sleep(750) before a second one has begun.
RestartInit ==
  /\ configured = TRUE
  /\ RunningThenReset
  /\ calc = NoCalc
  /\ BridgeIdle
  /\ prober = NoProbe
  /\ pairs = <<>>

Overlapping == Len(sleepers) >= 2 \/ cleared = "restart"

\* A process that has been sent SIGTERM exits.
SignalledExits == \E p \in Pids : procs[p] = "signalled" /\ ProcExit(p)

RestartNext ==
  \/ ImportUpload
  \/ ImportExtracted
  \/ Overlapping /\ RestartWake
  \/ ProbeEnds
  \/ PollSleepDone
  \/ RunMicrotask
  \/ SignalledExits
  \/ Finish

RestartSpec == RestartInit /\ [][RestartNext]_vars

\* C35 as stated - after overlapping restarts, while the process spawned by
\* the first of them runs, has not been told to stop, and no exit event or
\* probe timeout has cleared the handle since, the handle refers to it and no
\* other process has been spawned.
C35_OverlappingRestarts ==
  (spawnCount >= 2 /\ procs[2] = "alive" /\ cleared = "restart") =>
    (gatewayProc = 2 /\ spawnCount = 2)

\* No process spawned so far has exited.
NoExitYet == \A p \in 1..spawnCount : procs[p] # "none"

\* C36 as stated, for the runs in which no process has exited - a start that
\* has resolved ready, and a call that has returned success, find the handle
\* present and referring to a live process whose start passed its probe.
C36_SuccessMeansHandle ==
  /\ (attempt.state = "ready" /\ NoExitYet) => (gatewayProc # 0 /\ Alive(gatewayProc))
  /\ (last.call.called /\ last.result = "ok" /\ NoExitYet) =>
       (gatewayProc # 0 /\ Alive(gatewayProc) /\ attempt.state = "ready")

\* C37 as stated - while a restart is in its sleep(750), no request is handed
\* to the gateway by a call that returned success, without waiting for a
\* start, on a handle whose process has been sent SIGTERM.
C37_NoSuccessOnDyingHandle ==
  (last.call.called /\ last.result = "ok" /\ ~last.call.during /\ sleepers # <<>>
     /\ last.resp \in {"proxied", "bridged"}) =>
    (gatewayProc = 0 \/ procs[gatewayProc] # "signalled")

\* C38 - a frame that arrives while the other socket is not open is dropped:
\* its handler sends nothing and changes neither socket nor timer, and
\* nothing is sent later in its place; a send() is made only in the step in
\* which a frame arrives with the other socket open, and it carries that
\* frame.
C38_NoBuffering ==
  /\ [][(received'.client # received.client /\ upstreamWs.state # "open") =>
          (sent' = sent /\ clientWs' = clientWs /\ upstreamWs' = upstreamWs /\ torn' = torn)]_vars
  /\ [][(received'.upstream # received.upstream /\ clientWs.state # "open") =>
          (sent' = sent /\ clientWs' = clientWs /\ upstreamWs' = upstreamWs /\ torn' = torn)]_vars
  /\ [][(sent'.upstream # sent.upstream) =>
          /\ upstreamWs.state = "open"
          /\ Len(received'.client) = Len(received.client) + 1
          /\ LET f == received'.client[Len(received'.client)].frame
             IN  sent'.upstream = Append(sent.upstream, [data |-> f.data, binary |-> f.isBinary])]_vars
  /\ [][(sent'.client # sent.client) =>
          /\ clientWs.state = "open"
          /\ Len(received'.upstream) = Len(received.upstream) + 1
          /\ LET f == received'.upstream[Len(received'.upstream)].frame
             IN  sent'.client = Append(sent.client, [data |-> f.data, binary |-> f.isBinary])]_vars

\* C38 witness: a frame came from the client while the upstream was
\* connecting; the upstream has opened since, nothing has been sent to it and
\* the pairing is whole.
C38_Witness ==
  /\ Len(received.client) = 1 /\ ~received.client[1].peerOpen
  /\ upstreamWs.state = "open" /\ clientWs.state = "open"
  /\ sent.upstream = <<>> /\ torn = <<>>

\* The calls of one kind made on a socket so far.
CallsOf(ws, kind) == Len(SelectSeq(ws.calls, LAMBDA c : c[1] = kind))

\* C39 - on each socket of a pairing close() is called at most once, and
\* terminate() at most once; the handling of a close event makes no call on
\* the socket that emitted it, and the handling of the pairing's second close
\* event makes no call at all.
C39_TeardownOnce ==
  /\ [](CallsOf(clientWs, "close") <= 1 /\ CallsOf(clientWs, "terminate") <= 1)
  /\ [](CallsOf(upstreamWs, "close") <= 1 /\ CallsOf(upstreamWs, "terminate") <= 1)
  /\ [][(torn' # torn) =>
          LET e == torn'[Len(torn')]
          IN  /\ e.who = "client" => clientWs'.calls = clientWs.calls
              /\ e.who = "upstream" => upstreamWs'.calls = upstreamWs.calls
              /\ torn # <<>> => (clientWs'.calls = clientWs.calls
                                 /\ upstreamWs'.calls = upstreamWs.calls)]_vars

\* C39 witness: the client closed with 1000, the upstream was closed with
\* 1000 in answer, and its close event has been handled: one close() call
\* in all.
C39_Witness ==
  /\ Len(torn) = 2 /\ torn[1].who = "client" /\ torn[1].other = "open"
  /\ torn[2].who = "upstream"
  /\ upstreamWs.calls = << <<"close", 1000, "bye">> >>
  /\ clientWs.calls = <<>>
  /\ clientWs.state = "closed" /\ upstreamWs.state = "closed"
====
